---- MODULE Spec2Model ----
(***************************************************************************)
(* DrawingTools (tools.ts) of the Nota plugin: the stroke-capture,         *)
(* hold-to-snap, shape-classification and eraser logic of one page.        *)
(*                                                                         *)
(* Conventions of the model                                                *)
(*  - A "missing" value (null) is 0 for a node reference, "none" for a     *)
(*    shape kind and the empty tuple for a position or a bounds record.    *)
(*  - Point lists are flattened <<x1, y1, x2, y2, ...>> as in Konva.       *)
(*  - Opacity is in percent (1 -> 100, 0.3 -> 30).                         *)
(*  - A circle stores its radius squared (radiusSq), because the resizer   *)
(*    sets the radius to a square root; all comparisons on distances are   *)
(*    done on squares, exactly.                                            *)
(*  - Angles are in microdegrees.                                          *)
(*  - Write-only fields (shapeStartTime, shapeStartPoints, lastMoveTime)   *)
(*    are not part of the state.                                           *)
(*  - A node's opacity is opacity * 0.8^fade: selecting multiplies by 0.8  *)
(*    and clearing the selection divides by 0.8.                           *)
(***************************************************************************)
EXTENDS Integers, Sequences, FiniteSets, TLC

VARIABLES
    currentTool,        \* DrawingTools.currentTool
    isDrawing,          \* DrawingTools.isDrawing
    layer,              \* children of the Konva layer, bottom first
    currentLine,        \* id of the in-progress stroke, 0 = null
    currentShape,       \* id of the in-progress shape, 0 = null
    lastMovePos,        \* <<x, y>> or <<>>
    shapeHoldTimer,     \* TRUE when the field holds a timer handle
    timerArmed,         \* TRUE when the host still has the hold callback scheduled
    timerDue,           \* the time that callback is due, 0 when none is scheduled
    now,                \* the host's clock (Date.now()), in milliseconds
    isInShapeMode,
    detectedShapeType,  \* "circle", "oval", "rectangle", "triangle", "line", "none"
    shapeAnchor,        \* <<x, y>> or <<>>
    shapeBounds,        \* <<minX, minY, maxX, maxY>> or <<>>
    lastEraserPos,      \* <<x, y>> or <<>>
    eraserTrail,        \* id of the eraser trail line, 0 = null
    markedForDeletion,  \* set of node ids
    originalOpacities,  \* function: marked id -> opacity before marking
    lassoLine,          \* id of the lasso being drawn, 0 = null
    lassoPoints,        \* flattened points of the lasso
    selectedShapes,     \* set of node ids
    isDraggingSelection,
    dragStartPos,       \* <<x, y>> or <<>>
    lassoPath,          \* id of the frozen lasso outline, 0 = null
    selectionCenter,    \* <<sumX, sumY, numPoints>>: the point (sumX / numPoints,
                        \* sumY / numPoints) that scaleSelection scales around
    marchingAntsAnimationId, \* TRUE when the field holds a frame handle
    frameScheduled,     \* TRUE when the host has the animate callback pending
    isDirty,            \* DrawingView.isDirty, set by onContentChange
    saveDebounceTimer,  \* TRUE when the view's 500 ms save timer is pending
    savesInFlight,      \* contents serialized by saves awaiting the vault write
    fileData,           \* content last written to the file
    content,            \* the pages' content, as the number of changes made
    undoStack,          \* DrawingView.undoStack: snapshots, the newest last
    redoStack,          \* DrawingView.redoStack
    undoDebounceTimer,  \* TRUE when the view's 300 ms capture timer is pending
    pointerIsDown,      \* the host's pointer: pressed / touching
    argPoints,          \* input of a direct call of the classifier
    retShape            \* its result, "pending" before the call

vars == <<currentTool, isDrawing, layer, currentLine, currentShape, lastMovePos,
          shapeHoldTimer, timerArmed, timerDue, now, isInShapeMode,
          detectedShapeType,
          shapeAnchor, shapeBounds, lastEraserPos, eraserTrail,
          markedForDeletion, originalOpacities, lassoLine, lassoPoints,
          selectedShapes, isDraggingSelection, dragStartPos, lassoPath,
          selectionCenter,
          marchingAntsAnimationId, frameScheduled, isDirty, saveDebounceTimer,
          savesInFlight, fileData, content, undoStack, redoStack,
          undoDebounceTimer, pointerIsDown, argPoints, retShape>>

\* the variables of the view's undo logic
undoVars == <<undoStack, redoStack, undoDebounceTimer>>

\* the variables of the view's save and undo logic
viewVars == <<saveDebounceTimer, savesInFlight, fileData, content, undoVars>>

(***************************************************************************)
(* Bounds of the model.                                                    *)
(***************************************************************************)
MaxPts == 3         \* points of one stroke or eraser trail
MaxChildren == 3    \* children of the layer, background included
MaxSegs == 4        \* segments of a generated polyline stroke
MaxRun == 8         \* samples per leg of a generated L-shaped stroke

(***************************************************************************)
(* Program constants.                                                      *)
(***************************************************************************)
moveThreshold == 5
angleThreshold == 25
minPointsLength == 12
minStep == 4
minShapeSize == 5
dimOpacity == 30
holdDelay == 1000
maxUndoSteps == 50

NoPos == << >>
\* pointer positions the host reports; a gesture starts at DownPositions
Positions == { <<0, 0>>, <<12, 0>> }
DownPositions == { <<0, 0>> }
ToolType == {"hand", "pen", "highlighter", "eraser", "text", "select"}
ToolInputs == ToolType \ {"select"}
ShapeKinds == {"circle", "oval", "rectangle", "triangle", "line"}

PenSettings == [color |-> "#000000", thickness |-> 2, opacity |-> 100]
HighlighterSettings == [color |-> "#ffff00", thickness |-> 20, opacity |-> 30]
EraserSettings == [thickness |-> 20]

(***************************************************************************)
(* Arithmetic helpers.                                                     *)
(***************************************************************************)
Abs(n) == IF n < 0 THEN -n ELSE n
Min2(a, b) == IF a < b THEN a ELSE b
Max2(a, b) == IF a > b THEN a ELSE b
Sq(n) == n * n

RECURSIVE MinOf(_)
MinOf(s) == IF Len(s) = 1 THEN s[1] ELSE Min2(s[1], MinOf(Tail(s)))

RECURSIVE MaxOf(_)
MaxOf(s) == IF Len(s) = 1 THEN s[1] ELSE Max2(s[1], MaxOf(Tail(s)))

\* xs / ys of a flattened point list: for (i = 0; i < length; i += 2)
Xs(points) == [k \in 1..(Len(points) \div 2) |-> points[2 * k - 1]]
Ys(points) == [k \in 1..(Len(points) \div 2) |-> points[2 * k]]

\* the point whose x is at 0-based index i of a flattened list
PointAt(points, i) == <<points[i + 1], points[i + 2]>>

DistSq(p, q) == Sq(p[1] - q[1]) + Sq(p[2] - q[2])

(***************************************************************************)
(* Math.atan2 in microdegrees.  AtanTable[a + 1][b + 1] is atan2(a, b) for *)
(* 0 <= a, b <= 5, rounded to the microdegree.                             *)
(***************************************************************************)
AtanTable ==
    << <<0, 0, 0, 0, 0, 0>>,
       <<90000000, 45000000, 26565051, 18434949, 14036243, 11309932>>,
       <<90000000, 63434949, 45000000, 33690068, 26565051, 21801409>>,
       <<90000000, 71565051, 56309932, 45000000, 36869898, 30963757>>,
       <<90000000, 75963757, 63434949, 53130102, 45000000, 38659808>>,
       <<90000000, 78690068, 68198591, 59036243, 51340192, 45000000>> >>

\* the angle of (dx, dy) is that of (dx / 2, dy / 2)
RECURSIVE atan2(_, _)
atan2(dy, dx) ==
    IF dx = 0 /\ dy = 0 THEN 0
    ELSE IF dx % 2 = 0 /\ dy % 2 = 0 THEN atan2(dy \div 2, dx \div 2)
    ELSE LET q == AtanTable[Abs(dy) + 1][Abs(dx) + 1]
             upper == IF dx >= 0 THEN q ELSE 180000000 - q
         IN  IF dy >= 0 THEN upper ELSE -upper

getAngle(p1, p2, p3) ==
    LET a == atan2(p1[2] - p2[2], p1[1] - p2[1])
        b == atan2(p3[2] - p2[2], p3[1] - p2[1])
    IN  Abs(a - b)

(***************************************************************************)
(* Corner detector.                                                        *)
(***************************************************************************)
\* candidates of the scan loop, i = start, start + 2, ... while i < stop
RECURSIVE CornerCandidates(_, _, _, _)
CornerCandidates(points, step, i, stop) ==
    IF i >= stop THEN << >>
    ELSE LET prevIdx == Max2(0, i - step * 2)
             nextIdx == Min2(Len(points) - 2, i + step * 2)
             prev == PointAt(points, prevIdx)
             curr == PointAt(points, i)
             next == PointAt(points, nextIdx)
             angle == getAngle(prev, curr, next)
             rest == CornerCandidates(points, step, i + 2, stop)
         IN  IF angle < (180 - angleThreshold) * 1000000 /\ angle > 15 * 1000000
             THEN <<[point |-> curr, angle |-> angle]>> \o rest
             ELSE rest

\* candidates.sort((a, b) => a.angle - b.angle): a stable sort.  Angles that
\* are equal as real numbers compare equal here; in IEEE doubles two such
\* angles may differ in the last bit, which can only reorder candidates that
\* are equally sharp.
RECURSIVE InsertByAngle(_, _)
InsertByAngle(sorted, c) ==
    IF sorted = << >> THEN <<c>>
    ELSE IF sorted[Len(sorted)].angle <= c.angle THEN Append(sorted, c)
    ELSE Append(InsertByAngle(SubSeq(sorted, 1, Len(sorted) - 1), c),
                sorted[Len(sorted)])

RECURSIVE SortByAngle(_)
SortByAngle(cands) ==
    IF cands = << >> THEN << >>
    ELSE InsertByAngle(SortByAngle(SubSeq(cands, 1, Len(cands) - 1)),
                       cands[Len(cands)])

\* dist < Math.min(width, height) * 0.15, on squares
TooClose(p, corners, minSide) ==
    \E k \in 1..Len(corners) : 400 * DistSq(p, corners[k]) < 9 * Sq(minSide)

RECURSIVE PickCorners(_, _, _)
PickCorners(cands, corners, minSide) ==
    IF cands = << >> THEN corners
    ELSE PickCorners(Tail(cands),
                     IF TooClose(cands[1].point, corners, minSide)
                     THEN corners
                     ELSE Append(corners, cands[1].point),
                     minSide)

\* findSignificantCorners that takes the candidates in the order of the scan
findSignificantCorners_Unsorted(points, width, height) ==
    IF Len(points) < minPointsLength THEN << >>
    ELSE LET step == Max2(minStep, Len(points) \div 40)
             cands == CornerCandidates(points, step, step * 2,
                                       Len(points) - step * 2 - 1)
         IN  PickCorners(cands, << >>, Min2(width, height))

findSignificantCorners(points, width, height) ==
    IF Len(points) < minPointsLength THEN << >>
    ELSE LET step == Max2(minStep, Len(points) \div 40)
             cands == CornerCandidates(points, step, step * 2,
                                       Len(points) - step * 2 - 1)
         IN  PickCorners(SortByAngle(cands), << >>, Min2(width, height))

(***************************************************************************)
(* Shape classifier.                                                       *)
(***************************************************************************)
StrokeWidth(points) == MaxOf(Xs(points)) - MinOf(Xs(points))
StrokeHeight(points) == MaxOf(Ys(points)) - MinOf(Ys(points))

\* width > height * 3.5 || height > width * 3.5
IsLineRatio(width, height) == 2 * width > 7 * height \/ 2 * height > 7 * width

\* distance(start, end) < Math.max(width, height) * 0.25
IsClosed(points, width, height) ==
    LET n == Len(points)
    IN  16 * DistSq(<<points[1], points[2]>>, <<points[n - 1], points[n]>>)
            < Sq(Max2(width, height))

\* Math.max(w, h) / Math.min(w, h) < 1.3; the quotient is NaN or Infinity
\* when the smaller side is 0, and then the comparison is false
RatioBelow13(width, height) ==
    Min2(width, height) > 0 /\ 10 * Max2(width, height) < 13 * Min2(width, height)

analyzeStrokeForShape_LineAt4(points) ==
    IF Len(points) < 4 THEN "none"
    ELSE LET width == StrokeWidth(points)
             height == StrokeHeight(points)
             n == Len(findSignificantCorners(points, width, height))
         IN  IF width > height * 4 \/ height > width * 4 THEN "line"
             ELSE IF n = 3 THEN "triangle"
             ELSE IF n >= 4 THEN "rectangle"
             ELSE IF n = 2 /\ IsClosed(points, width, height) THEN "triangle"
             ELSE IF RatioBelow13(width, height) THEN "circle"
             ELSE "oval"

analyzeStrokeForShape_FourOnly(points) ==
    IF Len(points) < 4 THEN "none"
    ELSE LET width == StrokeWidth(points)
             height == StrokeHeight(points)
             n == Len(findSignificantCorners(points, width, height))
         IN  IF IsLineRatio(width, height) THEN "line"
             ELSE IF n = 3 THEN "triangle"
             ELSE IF n = 4 THEN "rectangle"
             ELSE IF n = 2 /\ IsClosed(points, width, height) THEN "triangle"
             ELSE IF RatioBelow13(width, height) THEN "circle"
             ELSE "oval"

\* analyzeStrokeForShape that gives up on a stroke without extent
analyzeStrokeForShape_NoExtent(points) ==
    IF Len(points) < 4 THEN "none"
    ELSE LET width == StrokeWidth(points)
             height == StrokeHeight(points)
             n == Len(findSignificantCorners(points, width, height))
         IN  IF width = 0 /\ height = 0 THEN "none"
             ELSE IF IsLineRatio(width, height) THEN "line"
             ELSE IF n = 3 THEN "triangle"
             ELSE IF n >= 4 THEN "rectangle"
             ELSE IF n = 2 /\ IsClosed(points, width, height) THEN "triangle"
             ELSE IF RatioBelow13(width, height) THEN "circle"
             ELSE "oval"

analyzeStrokeForShape(points) ==
    IF Len(points) < 4 THEN "none"
    ELSE LET width == StrokeWidth(points)
             height == StrokeHeight(points)
             n == Len(findSignificantCorners(points, width, height))
         IN  IF IsLineRatio(width, height) THEN "line"
             ELSE IF n = 3 THEN "triangle"
             ELSE IF n >= 4 THEN "rectangle"
             ELSE IF n = 2 /\ IsClosed(points, width, height) THEN "triangle"
             ELSE IF RatioBelow13(width, height) THEN "circle"
             ELSE "oval"

(***************************************************************************)
(* Layer children (Konva nodes).                                           *)
(***************************************************************************)
BlankNode ==
    [id |-> 0, name |-> "", cls |-> "", points |-> << >>, x |-> 0, y |-> 0,
     width |-> 0, height |-> 0, radiusSq |-> 0, radiusX |-> 0, radiusY |-> 0,
     opacity |-> 100, fade |-> 0, stroke |-> "", strokeWidth |-> 0]

LineNode(id, name, points, stroke, strokeWidth, opacity) ==
    [BlankNode EXCEPT !.id = id, !.name = name, !.cls = "Line", !.points = points,
                      !.stroke = stroke, !.strokeWidth = strokeWidth,
                      !.opacity = opacity]

\* PageManager.createBackground: the page's background rectangle
BackgroundNode ==
    [BlankNode EXCEPT !.id = 1, !.name = "background", !.cls = "Rect",
                      !.width = 794, !.height = 1123]

NodeIds(lyr) == { lyr[k].id : k \in 1..Len(lyr) }
Node(lyr, id) == lyr[CHOOSE k \in 1..Len(lyr) : lyr[k].id = id]
\* the layer with the node of this id, if it is there, replaced by node
ReplaceNode(lyr, id, node) ==
    [k \in 1..Len(lyr) |-> IF lyr[k].id = id THEN node ELSE lyr[k]]
\* the node of this id with a point appended: line.points(points.concat([x, y]))
WithPoint(lyr, id, pos) ==
    [Node(lyr, id) EXCEPT !.points = @ \o <<pos[1], pos[2]>>]
DestroyNodes(lyr, ids) == SelectSeq(lyr, LAMBDA n : n.id \notin ids)

\* identity of a newly constructed node: the least id that no child of the
\* layer and no field of the tools refers to
FreshId(s) ==
    LET used == NodeIds(s.layer) \cup s.markedForDeletion \cup s.selectedShapes
                    \cup {s.currentLine, s.currentShape, s.eraserTrail,
                          s.lassoLine, s.lassoPath}
    IN  CHOOSE i \in 1..(Cardinality(used) + 1) : i \notin used

\* every coordinate the host delivers in this model is even, so halving is exact
Half(n) == n \div 2

(***************************************************************************)
(* The fields of DrawingTools (and the view's dirty flag) as one record,   *)
(* so that a handler is a function from state to state.                    *)
(***************************************************************************)
State ==
    [currentTool |-> currentTool, isDrawing |-> isDrawing, layer |-> layer,
     currentLine |-> currentLine, currentShape |-> currentShape,
     lastMovePos |-> lastMovePos, shapeHoldTimer |-> shapeHoldTimer,
     timerArmed |-> timerArmed, timerDue |-> timerDue, now |-> now,
     isInShapeMode |-> isInShapeMode,
     detectedShapeType |-> detectedShapeType, shapeAnchor |-> shapeAnchor,
     shapeBounds |-> shapeBounds, lastEraserPos |-> lastEraserPos,
     eraserTrail |-> eraserTrail, markedForDeletion |-> markedForDeletion,
     originalOpacities |-> originalOpacities, lassoLine |-> lassoLine,
     lassoPoints |-> lassoPoints, selectedShapes |-> selectedShapes,
     isDraggingSelection |-> isDraggingSelection, dragStartPos |-> dragStartPos,
     lassoPath |-> lassoPath, selectionCenter |-> selectionCenter,
     marchingAntsAnimationId |-> marchingAntsAnimationId,
     frameScheduled |-> frameScheduled, isDirty |-> isDirty]

Becomes(s) ==
    /\ currentTool' = s.currentTool
    /\ isDrawing' = s.isDrawing
    /\ layer' = s.layer
    /\ currentLine' = s.currentLine
    /\ currentShape' = s.currentShape
    /\ lastMovePos' = s.lastMovePos
    /\ shapeHoldTimer' = s.shapeHoldTimer
    /\ timerArmed' = s.timerArmed
    /\ timerDue' = s.timerDue
    /\ now' = s.now
    /\ isInShapeMode' = s.isInShapeMode
    /\ detectedShapeType' = s.detectedShapeType
    /\ shapeAnchor' = s.shapeAnchor
    /\ shapeBounds' = s.shapeBounds
    /\ lastEraserPos' = s.lastEraserPos
    /\ eraserTrail' = s.eraserTrail
    /\ markedForDeletion' = s.markedForDeletion
    /\ originalOpacities' = s.originalOpacities
    /\ lassoLine' = s.lassoLine
    /\ lassoPoints' = s.lassoPoints
    /\ selectedShapes' = s.selectedShapes
    /\ isDraggingSelection' = s.isDraggingSelection
    /\ dragStartPos' = s.dragStartPos
    /\ lassoPath' = s.lassoPath
    /\ selectionCenter' = s.selectionCenter
    /\ marchingAntsAnimationId' = s.marchingAntsAnimationId
    /\ frameScheduled' = s.frameScheduled
    /\ isDirty' = s.isDirty

\* DrawingView.onContentChange (the flag only)
onContentChange(s) == [s EXCEPT !.isDirty = TRUE]

setTool(s, tool) == [s EXCEPT !.currentTool = tool]

(***************************************************************************)
(* Drawing.                                                                *)
(***************************************************************************)
startDrawing(s, pos) ==
    LET settings == IF s.currentTool = "pen" THEN PenSettings
                    ELSE HighlighterSettings
        id == FreshId(s)
    IN  [s EXCEPT !.currentLine = id,
                  !.layer = Append(@, LineNode(id, "stroke", <<pos[1], pos[2]>>,
                                               settings.color, settings.thickness,
                                               settings.opacity))]

continueDrawing(s, pos) ==
    IF s.currentLine = 0 THEN s
    ELSE [s EXCEPT !.layer = ReplaceNode(@, s.currentLine,
                                         WithPoint(s.layer, s.currentLine, pos))]

checkForShapeHold(s, pos) ==
    LET moved == /\ s.lastMovePos # NoPos
                 /\ DistSq(pos, s.lastMovePos) > Sq(moveThreshold)
        reset == moved /\ s.shapeHoldTimer
        held == IF reset THEN FALSE ELSE s.shapeHoldTimer
        armed == IF reset THEN FALSE ELSE s.timerArmed
        due == IF reset THEN 0 ELSE s.timerDue
        start == ~held /\ s.currentLine # 0
    IN  [s EXCEPT !.lastMovePos = pos,
                  !.shapeHoldTimer = held \/ start,
                  !.timerArmed = armed \/ start,
                  !.timerDue = IF start THEN s.now + holdDelay ELSE due]

(***************************************************************************)
(* Eraser.                                                                 *)
(***************************************************************************)
\* squared distance from (px, py) to the segment, as <<numerator, denominator>>
pointToSegmentDistance(px, py, x1, y1, x2, y2) ==
    LET dx == x2 - x1
        dy == y2 - y1
        lengthSquared == dx * dx + dy * dy
        dot == (px - x1) * dx + (py - y1) * dy
    IN  IF lengthSquared = 0 THEN <<Sq(px - x1) + Sq(py - y1), 1>>
        ELSE IF dot <= 0 THEN <<Sq(px - x1) + Sq(py - y1), 1>>
        ELSE IF dot >= lengthSquared THEN <<Sq(px - x2) + Sq(py - y2), 1>>
        ELSE <<(Sq(px - x1) + Sq(py - y1)) * lengthSquared - Sq(dot),
               lengthSquared>>

\* distance <= twice / 2, for a squared distance d = <<numerator, denominator>>
WithinHalf(d, twice) == 4 * d[1] <= Sq(twice) * d[2]

\* lineIntersectsEraser with < in place of <=
lineIntersectsEraser_Strict(line, eraserPos, diameter) ==
    \E k \in 0..(Len(line.points) \div 2) :
        /\ 2 * k < Len(line.points) - 2
        /\ LET d == pointToSegmentDistance(eraserPos[1], eraserPos[2],
                          line.points[2 * k + 1], line.points[2 * k + 2],
                          line.points[2 * k + 3], line.points[2 * k + 4])
           IN  4 * d[1] < Sq(diameter + line.strokeWidth) * d[2]

\* diameter is twice the eraser radius (settings.eraser.thickness)
lineIntersectsEraser(line, eraserPos, diameter) ==
    \E k \in 0..(Len(line.points) \div 2) :
        /\ 2 * k < Len(line.points) - 2
        /\ WithinHalf(pointToSegmentDistance(eraserPos[1], eraserPos[2],
                          line.points[2 * k + 1], line.points[2 * k + 2],
                          line.points[2 * k + 3], line.points[2 * k + 4]),
                      diameter + line.strokeWidth)

\* |dist - r| <= eraserRadius + strokeWidth / 2, with dist and r square roots
circleIntersectsEraser(circle, eraserPos, diameter) ==
    LET distSq == DistSq(eraserPos, <<circle.x, circle.y>>)
        twice == diameter + circle.strokeWidth
        lhs == 4 * (distSq + circle.radiusSq) - Sq(twice)
    IN  lhs <= 0 \/ Sq(lhs) <= 64 * distSq * circle.radiusSq

\* |normalizedDist - 1| * avgRadius <= eraserRadius + strokeWidth / 2; a zero
\* radius makes the quotient NaN or Infinity and the comparison false
ellipseIntersectsEraser(ellipse, eraserPos, diameter) ==
    LET rx == ellipse.radiusX
        ry == ellipse.radiusY
        twice == diameter + ellipse.strokeWidth
        n == Sq((eraserPos[1] - ellipse.x) * ry) + Sq((eraserPos[2] - ellipse.y) * rx)
        p == rx * ry
        sum == rx + ry
        hi == twice * p + sum * p
        lo == sum * p - twice * p
    IN  /\ rx # 0
        /\ ry # 0
        /\ Sq(sum) * n <= Sq(hi)
        /\ (lo <= 0 \/ Sq(sum) * n >= Sq(lo))

rectIntersectsEraser(rect, eraserPos, diameter) ==
    LET x == rect.x
        y == rect.y
        w == rect.width
        h == rect.height
        twice == diameter + rect.strokeWidth
        px == eraserPos[1]
        py == eraserPos[2]
    IN  \/ WithinHalf(pointToSegmentDistance(px, py, x, y, x + w, y), twice)
        \/ WithinHalf(pointToSegmentDistance(px, py, x, y + h, x + w, y + h), twice)
        \/ WithinHalf(pointToSegmentDistance(px, py, x, y, x, y + h), twice)
        \/ WithinHalf(pointToSegmentDistance(px, py, x + w, y, x + w, y + h), twice)

IntersectsEraser(child, pos, diameter) ==
    CASE child.cls = "Line" -> lineIntersectsEraser(child, pos, diameter)
      [] child.cls = "Circle" -> circleIntersectsEraser(child, pos, diameter)
      [] child.cls = "Ellipse" -> ellipseIntersectsEraser(child, pos, diameter)
      [] child.cls = "Rect" -> rectIntersectsEraser(child, pos, diameter)
      [] OTHER -> FALSE

checkEraserIntersections(s, pos) ==
    LET hit == { s.layer[k].id : k \in
                   { j \in 1..Len(s.layer) :
                        /\ s.layer[j].name = "stroke"
                        /\ s.layer[j].id \notin s.markedForDeletion
                        /\ IntersectsEraser(s.layer[j], pos,
                                            EraserSettings.thickness) } }
        marked == s.markedForDeletion \cup hit
    IN  [s EXCEPT
            !.markedForDeletion = marked,
            !.originalOpacities =
                [id \in marked |-> IF id \in hit
                                   THEN <<Node(s.layer, id).opacity,
                                          Node(s.layer, id).fade>>
                                   ELSE s.originalOpacities[id]],
            !.layer = [k \in 1..Len(s.layer) |->
                          IF s.layer[k].id \in hit
                          THEN [s.layer[k] EXCEPT !.opacity = dimOpacity,
                                                  !.fade = 0,
                                                  !.stroke = "#888888"]
                          ELSE s.layer[k]]]

startErasing(s, pos) ==
    LET id == FreshId(s)
        trail == LineNode(id, "eraser-trail", <<pos[1], pos[2]>>, "#ffffff",
                          EraserSettings.thickness, 100)
    IN  checkEraserIntersections(
            [s EXCEPT !.lastEraserPos = pos,
                      !.markedForDeletion = {},
                      !.originalOpacities = << >>,
                      !.eraserTrail = id,
                      !.layer = Append(@, trail)],
            pos)

eraseAtPosition(s, pos) ==
    LET extended ==
            IF s.eraserTrail = 0 THEN s
            ELSE [s EXCEPT !.layer = ReplaceNode(@, s.eraserTrail,
                                    WithPoint(s.layer, s.eraserTrail, pos))]
    IN  [checkEraserIntersections(extended, pos) EXCEPT !.lastEraserPos = pos]

finishErasing(s) ==
    [s EXCEPT !.layer = DestroyNodes(@, {s.eraserTrail} \cup s.markedForDeletion),
              !.eraserTrail = 0,
              !.markedForDeletion = {},
              !.originalOpacities = << >>,
              !.lastEraserPos = NoPos]

\* the text tool: a Konva.Text node without a name
createTextBox(s, pos) ==
    onContentChange(
        [s EXCEPT !.layer = Append(@, [BlankNode EXCEPT !.id = FreshId(s),
                                                        !.cls = "Text",
                                                        !.x = pos[1],
                                                        !.y = pos[2]])])

(***************************************************************************)
(* Hold-to-snap: shape detection, creation and live resize.                *)
(***************************************************************************)
\* JavaScript's a || b on numbers: b when a is undefined or 0
OrElse(points, k, default) ==
    IF k >= 1 /\ k <= Len(points) /\ points[k] # 0 THEN points[k] ELSE default

ShapeNode(id, cls) ==
    [BlankNode EXCEPT !.id = id, !.name = "stroke", !.cls = cls,
                      !.stroke = PenSettings.color,
                      !.strokeWidth = PenSettings.thickness]

createDetectedShape(s) ==
    IF s.shapeBounds = << >> \/ s.detectedShapeType = "none" THEN s
    ELSE
    LET minX == s.shapeBounds[1]
        minY == s.shapeBounds[2]
        maxX == s.shapeBounds[3]
        maxY == s.shapeBounds[4]
        width == maxX - minX
        height == maxY - minY
        centerX == Half(minX + maxX)
        centerY == Half(minY + maxY)
        id == FreshId(s)
        \* this.currentLine?.points() || []
        points == IF s.currentLine = 0 THEN << >>
                  ELSE Node(s.layer, s.currentLine).points
        startX == OrElse(points, 1, minX)
        startY == OrElse(points, 2, minY)
        endX == OrElse(points, Len(points) - 1, maxX)
        endY == OrElse(points, Len(points), maxY)
        shape ==
            CASE s.detectedShapeType = "circle" ->
                   [ShapeNode(id, "Circle") EXCEPT
                       !.x = centerX, !.y = centerY,
                       !.radiusSq = Sq(Half(Min2(width, height)))]
              [] s.detectedShapeType = "oval" ->
                   [ShapeNode(id, "Ellipse") EXCEPT
                       !.x = centerX, !.y = centerY,
                       !.radiusX = Half(width), !.radiusY = Half(height)]
              [] s.detectedShapeType = "rectangle" ->
                   [ShapeNode(id, "Rect") EXCEPT
                       !.x = minX, !.y = minY, !.width = width, !.height = height]
              [] s.detectedShapeType = "triangle" ->
                   [ShapeNode(id, "Line") EXCEPT
                       !.points = <<centerX, minY, minX, maxY, maxX, maxY,
                                    centerX, minY>>]
              [] s.detectedShapeType = "line" ->
                   [ShapeNode(id, "Line") EXCEPT
                       !.points = <<startX, startY, endX, endY>>]
    IN  [s EXCEPT !.currentShape = id,
                  !.shapeAnchor = IF s.detectedShapeType = "line"
                                  THEN <<startX, startY>> ELSE @,
                  !.layer = Append(@, shape)]

\* triggerShapeDetection that asks for 2 points only
triggerShapeDetection_TwoPoints(s) ==
    IF s.currentLine = 0 \/ s.isInShapeMode THEN s
    ELSE
    LET points == Node(s.layer, s.currentLine).points
        shapeType == analyzeStrokeForShape(points)
        bounds == <<MinOf(Xs(points)), MinOf(Ys(points)),
                    MaxOf(Xs(points)), MaxOf(Ys(points))>>
    IN  IF Len(points) < 4 THEN s
        ELSE IF shapeType = "none" THEN s
        ELSE createDetectedShape(
                 [s EXCEPT !.detectedShapeType = shapeType,
                           !.isInShapeMode = TRUE,
                           !.shapeBounds = bounds,
                           !.shapeAnchor = <<Half(bounds[1] + bounds[3]),
                                             Half(bounds[2] + bounds[4])>>,
                           !.layer = DestroyNodes(@, {s.currentLine}),
                           !.currentLine = 0])

\* triggerShapeDetection that leaves the raw stroke on the layer
triggerShapeDetection_KeepStroke(s) ==
    IF s.currentLine = 0 \/ s.isInShapeMode THEN s
    ELSE
    LET points == Node(s.layer, s.currentLine).points
        shapeType == analyzeStrokeForShape(points)
        bounds == <<MinOf(Xs(points)), MinOf(Ys(points)),
                    MaxOf(Xs(points)), MaxOf(Ys(points))>>
        s1 == [s EXCEPT !.detectedShapeType = shapeType,
                        !.isInShapeMode = TRUE,
                        !.shapeBounds = bounds,
                        !.shapeAnchor = <<Half(bounds[1] + bounds[3]),
                                          Half(bounds[2] + bounds[4])>>]
    IN  IF Len(points) < 6 THEN s
        ELSE IF shapeType = "none" THEN s
        ELSE [createDetectedShape(s1) EXCEPT !.currentLine = 0]

triggerShapeDetection(s) ==
    IF s.currentLine = 0 \/ s.isInShapeMode THEN s
    ELSE
    LET points == Node(s.layer, s.currentLine).points
        shapeType == analyzeStrokeForShape(points)
        bounds == <<MinOf(Xs(points)), MinOf(Ys(points)),
                    MaxOf(Xs(points)), MaxOf(Ys(points))>>
    IN  IF Len(points) < 6 THEN s
        ELSE IF shapeType = "none" THEN s
        ELSE createDetectedShape(
                 [s EXCEPT !.detectedShapeType = shapeType,
                           !.isInShapeMode = TRUE,
                           !.shapeBounds = bounds,
                           !.shapeAnchor = <<Half(bounds[1] + bounds[3]),
                                             Half(bounds[2] + bounds[4])>>,
                           !.layer = DestroyNodes(@, {s.currentLine}),
                           !.currentLine = 0])

\* resizeShape whose rectangle starts at the pointer on either side of the anchor
resizeShape_RectAtPointer(s, pos) ==
    IF s.currentShape = 0 \/ s.shapeAnchor = << >> \/ s.detectedShapeType # "rectangle"
    THEN s
    ELSE [s EXCEPT !.layer = ReplaceNode(@, s.currentShape,
              [Node(s.layer, s.currentShape) EXCEPT
                  !.x = pos[1], !.y = pos[2],
                  !.width = Abs(pos[1] - s.shapeAnchor[1]) * 2,
                  !.height = Abs(pos[2] - s.shapeAnchor[2]) * 2])]

\* resizeShape that never shrinks an oval: each radius grows from the last one
resizeShape_GrowOnly(s, pos) ==
    IF s.currentShape = 0 \/ s.shapeAnchor = << >> \/ s.detectedShapeType # "oval"
    THEN s
    ELSE [s EXCEPT !.layer = ReplaceNode(@, s.currentShape,
              [Node(s.layer, s.currentShape) EXCEPT
                  !.radiusX = Max2(@, Abs(pos[1] - s.shapeAnchor[1])),
                  !.radiusY = Max2(@, Abs(pos[2] - s.shapeAnchor[2]))])]

resizeShape(s, pos) ==
    IF s.currentShape = 0 \/ s.shapeAnchor = << >> THEN s
    ELSE
    LET ax == s.shapeAnchor[1]
        ay == s.shapeAnchor[2]
        dx == pos[1] - ax
        dy == pos[2] - ay
        Resized(n) ==
            CASE s.detectedShapeType = "circle" ->
                   [n EXCEPT !.radiusSq = Max2(Sq(minShapeSize), dx * dx + dy * dy)]
              [] s.detectedShapeType = "oval" ->
                   [n EXCEPT !.radiusX = Max2(minShapeSize, Abs(dx)),
                             !.radiusY = Max2(minShapeSize, Abs(dy))]
              [] s.detectedShapeType = "rectangle" ->
                   [n EXCEPT !.x = IF dx < 0 THEN pos[1] ELSE ax - Abs(dx),
                             !.y = IF dy < 0 THEN pos[2] ELSE ay - Abs(dy),
                             !.width = Abs(dx) * 2,
                             !.height = Abs(dy) * 2]
              [] s.detectedShapeType = "triangle" ->
                   [n EXCEPT !.points =
                       <<ax, ay - Abs(dy), ax - Abs(dx), ay + Abs(dy),
                         ax + Abs(dx), ay + Abs(dy), ax, ay - Abs(dy)>>]
              [] s.detectedShapeType = "line" ->
                   [n EXCEPT !.points = <<ax, ay, pos[1], pos[2]>>]
              [] OTHER -> n
    IN  [s EXCEPT !.layer = ReplaceNode(@, s.currentShape,
                                   Resized(Node(s.layer, s.currentShape)))]

finishShapeMode(s) == [s EXCEPT !.currentShape = 0]

finishDrawing(s) == s

(***************************************************************************)
(* Lasso selection.                                                        *)
(***************************************************************************)
\* ray casting: the edge from point j to point i of the polygon crosses the
\* ray to the right of (x, y); x < (xj - xi) * (y - yi) / (yj - yi) + xi is
\* decided on whole numbers after multiplying by yj - yi
EdgeCrosses(points, i, j, x, y) ==
    LET xi == points[i + 1]
        yi == points[i + 2]
        xj == points[j + 1]
        yj == points[j + 2]
        d == yj - yi
        n == (xj - xi) * (y - yi)
    IN  /\ (yi > y) # (yj > y)
        /\ IF d > 0 THEN (x - xi) * d < n ELSE (x - xi) * d > n

\* isPointInLasso that counts a point in as soon as one edge crosses its ray
isPointInLasso_AnyCrossing(points, x, y) ==
    IF Len(points) < 6 THEN FALSE
    ELSE LET last == Len(points) \div 2 - 1
         IN  \E k \in 0..last :
                 EdgeCrosses(points, 2 * k,
                             IF k = 0 THEN 2 * last ELSE 2 * (k - 1), x, y)

isPointInLasso(points, x, y) ==
    IF Len(points) < 6 THEN FALSE
    ELSE LET last == Len(points) \div 2 - 1
             crossing == { k \in 0..last :
                             EdgeCrosses(points, 2 * k,
                                         IF k = 0 THEN 2 * last ELSE 2 * (k - 1),
                                         x, y) }
         IN  Cardinality(crossing) % 2 = 1

\* the whole part of a square root
IntSqrt(n) == CHOOSE r \in 0..n : r * r <= n /\ (r + 1) * (r + 1) > n

shapeIntersectsLasso(points, shape) ==
    CASE shape.cls = "Line" ->
           \E k \in 0..(Len(shape.points) \div 2 - 1) :
               isPointInLasso(points, shape.points[2 * k + 1], shape.points[2 * k + 2])
      [] shape.cls = "Circle" ->
           LET r == IntSqrt(shape.radiusSq)
           IN  \/ isPointInLasso(points, shape.x, shape.y)
               \/ isPointInLasso(points, shape.x + r, shape.y)
               \/ isPointInLasso(points, shape.x - r, shape.y)
               \/ isPointInLasso(points, shape.x, shape.y + r)
               \/ isPointInLasso(points, shape.x, shape.y - r)
      [] shape.cls = "Ellipse" ->
           \/ isPointInLasso(points, shape.x, shape.y)
           \/ isPointInLasso(points, shape.x + shape.radiusX, shape.y)
           \/ isPointInLasso(points, shape.x - shape.radiusX, shape.y)
           \/ isPointInLasso(points, shape.x, shape.y + shape.radiusY)
           \/ isPointInLasso(points, shape.x, shape.y - shape.radiusY)
      [] shape.cls = "Rect" ->
           \/ isPointInLasso(points, shape.x, shape.y)
           \/ isPointInLasso(points, shape.x + shape.width, shape.y)
           \/ isPointInLasso(points, shape.x, shape.y + shape.height)
           \/ isPointInLasso(points, shape.x + shape.width, shape.y + shape.height)
           \/ isPointInLasso(points, shape.x + Half(shape.width),
                              shape.y + Half(shape.height))
      [] OTHER -> FALSE

\* requestAnimationFrame(animate), after cancelling the frame already asked for
startMarchingAnts(s) ==
    [s EXCEPT !.marchingAntsAnimationId = TRUE, !.frameScheduled = TRUE]

\* the animate callback: it asks for the next frame while the outline exists
animate(s) ==
    IF s.lassoPath = 0 THEN [s EXCEPT !.frameScheduled = FALSE]
    ELSE [s EXCEPT !.marchingAntsAnimationId = TRUE, !.frameScheduled = TRUE]

\* the layer with fade changed by delta on the nodes of these ids
FadeNodes(lyr, ids, delta) ==
    [k \in 1..Len(lyr) |-> IF lyr[k].id \in ids
                            THEN [lyr[k] EXCEPT !.fade = @ + delta]
                            ELSE lyr[k]]

clearSelection(s) ==
    LET stopped == IF s.marchingAntsAnimationId
                   THEN [s EXCEPT !.marchingAntsAnimationId = FALSE,
                                  !.frameScheduled = FALSE]
                   ELSE s
    IN  [stopped EXCEPT
            !.layer = DestroyNodes(FadeNodes(@, s.selectedShapes, -1), {s.lassoPath}),
            !.lassoPath = 0,
            !.selectedShapes = {},
            !.lassoPoints = << >>,
            !.isDraggingSelection = FALSE,
            !.dragStartPos = NoPos]

\* startSelection that keeps the selection when the press is outside the outline
startSelection_NoClear(s, pos) ==
    LET inside == s.lassoPath # 0 /\ s.selectedShapes # {}
                     /\ isPointInLasso(s.lassoPoints, pos[1], pos[2])
        id == FreshId(s)
    IN  IF inside
        THEN [s EXCEPT !.isDraggingSelection = TRUE, !.dragStartPos = pos]
        ELSE [s EXCEPT
                 !.lassoPoints = <<pos[1], pos[2]>>,
                 !.lassoLine = id,
                 !.layer = Append(@, LineNode(id, "lasso-drawing",
                                              <<pos[1], pos[2]>>, "#888888", 1, 70))]

\* the lasso-drawing line is dashed grey, 1.5 wide (kept as 1: never read)
startSelection(s, pos) ==
    LET inside == s.lassoPath # 0 /\ s.selectedShapes # {}
                     /\ isPointInLasso(s.lassoPoints, pos[1], pos[2])
        s1 == IF s.lassoPath # 0 /\ s.selectedShapes # {}
              THEN clearSelection(s) ELSE s
        id == FreshId(s1)
    IN  IF inside
        THEN [s EXCEPT !.isDraggingSelection = TRUE, !.dragStartPos = pos]
        ELSE [s1 EXCEPT
                 !.lassoPoints = <<pos[1], pos[2]>>,
                 !.lassoLine = id,
                 !.layer = Append(@, LineNode(id, "lasso-drawing",
                                              <<pos[1], pos[2]>>, "#888888", 1, 70))]

\* a point list moved by (dx, dy)
Shifted(points, dx, dy) ==
    [k \in 1..Len(points) |-> points[k] + IF k % 2 = 1 THEN dx ELSE dy]

\* continueSelection that measures every move from where the drag began
continueSelection_FromStart(s, pos) ==
    IF s.isDraggingSelection /\ s.dragStartPos # NoPos
    THEN LET dx == pos[1] - s.dragStartPos[1]
             dy == pos[2] - s.dragStartPos[2]
             moved == [k \in 1..Len(s.layer) |->
                          IF s.layer[k].id \in s.selectedShapes
                          THEN [s.layer[k] EXCEPT !.x = @ + dx, !.y = @ + dy]
                          ELSE s.layer[k]]
             newPoints == Shifted(Node(s.layer, s.lassoPath).points, dx, dy)
         IN  IF s.lassoPath # 0
             THEN [s EXCEPT !.layer = ReplaceNode(moved, s.lassoPath,
                                 [Node(s.layer, s.lassoPath) EXCEPT !.points = newPoints]),
                            !.lassoPoints = newPoints]
             ELSE [s EXCEPT !.layer = moved]
    ELSE IF s.lassoLine = 0 THEN s
    ELSE LET pushed == s.lassoPoints \o <<pos[1], pos[2]>>
         IN  [s EXCEPT !.lassoPoints = pushed,
                       !.layer = ReplaceNode(@, s.lassoLine,
                                     [Node(s.layer, s.lassoLine) EXCEPT !.points = pushed])]

continueSelection(s, pos) ==
    IF s.isDraggingSelection /\ s.dragStartPos # NoPos
    THEN LET dx == pos[1] - s.dragStartPos[1]
             dy == pos[2] - s.dragStartPos[2]
             moved == [k \in 1..Len(s.layer) |->
                          IF s.layer[k].id \in s.selectedShapes
                          THEN [s.layer[k] EXCEPT !.x = @ + dx, !.y = @ + dy]
                          ELSE s.layer[k]]
             newPoints == Shifted(Node(s.layer, s.lassoPath).points, dx, dy)
         IN  IF s.lassoPath # 0
             THEN [s EXCEPT !.layer = ReplaceNode(moved, s.lassoPath,
                                 [Node(s.layer, s.lassoPath) EXCEPT !.points = newPoints]),
                            !.lassoPoints = newPoints,
                            !.dragStartPos = pos]
             ELSE [s EXCEPT !.layer = moved, !.dragStartPos = pos]
    ELSE IF s.lassoLine = 0 THEN s
    ELSE LET pushed == s.lassoPoints \o <<pos[1], pos[2]>>
         IN  [s EXCEPT !.lassoPoints = pushed,
                       !.layer = ReplaceNode(@, s.lassoLine,
                                     [Node(s.layer, s.lassoLine) EXCEPT !.points = pushed])]

\* the sum of points[k], points[k + 2], ...
RECURSIVE SumFrom(_, _)
SumFrom(points, k) ==
    IF k > Len(points) THEN 0 ELSE points[k] + SumFrom(points, k + 2)

\* the mean of the outline's points, kept as the two sums and the count
calculateSelectionCenter(s) ==
    IF Len(s.lassoPoints) < 2 THEN s
    ELSE [s EXCEPT !.selectionCenter = <<SumFrom(s.lassoPoints, 1),
                                         SumFrom(s.lassoPoints, 2),
                                         Len(s.lassoPoints) \div 2>>]

\* finishSelection that selects every child the lasso touches, whatever its name
finishSelection_AnyName(s) ==
    IF s.isDraggingSelection
    THEN onContentChange([s EXCEPT !.isDraggingSelection = FALSE,
                                   !.dragStartPos = NoPos])
    ELSE IF s.lassoLine = 0 \/ Len(s.lassoPoints) < 6
    THEN [s EXCEPT !.layer = DestroyNodes(@, {s.lassoLine} \ {0}),
                   !.lassoLine = 0,
                   !.lassoPoints = << >>]
    ELSE
    LET closed == s.lassoPoints \o <<s.lassoPoints[1], s.lassoPoints[2]>>
        lyr == DestroyNodes(s.layer, {s.lassoLine})
        selected == { lyr[k].id : k \in
                        { j \in 1..Len(lyr) : shapeIntersectsLasso(closed, lyr[j]) } }
        s1 == [s EXCEPT !.layer = lyr, !.lassoLine = 0, !.lassoPoints = closed,
                        !.selectedShapes = selected]
        id == FreshId(s1)
    IN  IF selected # {}
        THEN startMarchingAnts(
                 [calculateSelectionCenter(s1) EXCEPT !.lassoPath = id,
                            !.layer = FadeNodes(
                                Append(@, LineNode(id, "lasso-path", closed,
                                                   "#0066ff", 2, 100)),
                                selected, 1)])
        ELSE [s1 EXCEPT !.lassoPoints = << >>]

finishSelection(s) ==
    IF s.isDraggingSelection
    THEN onContentChange([s EXCEPT !.isDraggingSelection = FALSE,
                                   !.dragStartPos = NoPos])
    ELSE IF s.lassoLine = 0 \/ Len(s.lassoPoints) < 6
    THEN [s EXCEPT !.layer = DestroyNodes(@, {s.lassoLine} \ {0}),
                   !.lassoLine = 0,
                   !.lassoPoints = << >>]
    ELSE
    LET closed == s.lassoPoints \o <<s.lassoPoints[1], s.lassoPoints[2]>>
        lyr == DestroyNodes(s.layer, {s.lassoLine})
        selected == { lyr[k].id : k \in
                        { j \in 1..Len(lyr) :
                             /\ lyr[j].name \in {"stroke", "shape"}
                             /\ shapeIntersectsLasso(closed, lyr[j]) } }
        s1 == [s EXCEPT !.layer = lyr, !.lassoLine = 0, !.lassoPoints = closed,
                        !.selectedShapes = selected]
        id == FreshId(s1)
    IN  IF selected # {}
        THEN startMarchingAnts(
                 [calculateSelectionCenter(s1) EXCEPT !.lassoPath = id,
                            !.layer = FadeNodes(
                                Append(@, LineNode(id, "lasso-path", closed,
                                                   "#0066ff", 2, 100)),
                                selected, 1)])
        ELSE [s1 EXCEPT !.lassoPoints = << >>]

(***************************************************************************)
(* Pointer handlers.                                                       *)
(***************************************************************************)
hasActiveSelection(s) == s.selectedShapes # {} /\ s.lassoPath # 0

isPointInSelection(s, pos) ==
    hasActiveSelection(s) /\ isPointInLasso(s.lassoPoints, pos[1], pos[2])

\* c + (p - c) * scaleFactor for the centre c = sum / n; the division is exact
\* wherever WholeScale holds
ScaleAbout(p, sum, n, scaleFactor) ==
    (n * p * scaleFactor - (scaleFactor - 1) * sum) \div n

\* a point list scaled around the centre
ScaledPoints(points, c, scaleFactor) ==
    [k \in 1..Len(points) |->
        ScaleAbout(points[k], IF k % 2 = 1 THEN c[1] ELSE c[2], c[3], scaleFactor)]

\* one selected shape after the forEach body of scaleSelection
ScaledShape(shape, c, scaleFactor) ==
    IF shape.cls = "Line"
    THEN [shape EXCEPT !.points = ScaledPoints(@, c, scaleFactor),
                       !.strokeWidth = @ * scaleFactor]
    ELSE [shape EXCEPT !.x = ScaleAbout(@, c[1], c[3], scaleFactor),
                       !.y = ScaleAbout(@, c[2], c[3], scaleFactor),
                       !.radiusSq = @ * scaleFactor * scaleFactor,
                       !.radiusX = @ * scaleFactor,
                       !.radiusY = @ * scaleFactor,
                       !.width = @ * scaleFactor,
                       !.height = @ * scaleFactor,
                       !.strokeWidth = @ * scaleFactor]

scaleSelection(s, scaleFactor) ==
    IF ~hasActiveSelection(s) THEN s
    ELSE LET c == s.selectionCenter
             scaled == [k \in 1..Len(s.layer) |->
                           IF s.layer[k].id \in s.selectedShapes
                           THEN ScaledShape(s.layer[k], c, scaleFactor)
                           ELSE s.layer[k]]
             newLassoPoints == ScaledPoints(s.lassoPoints, c, scaleFactor)
             path == Node(s.layer, s.lassoPath)
         IN  onContentChange(
                 [s EXCEPT !.layer = ReplaceNode(scaled, s.lassoPath,
                                         [path EXCEPT !.points = newLassoPoints,
                                                      !.strokeWidth = @ * scaleFactor]),
                           !.lassoPoints = newLassoPoints])

handlePointerDown(s, pos) ==
    IF s.currentTool = "hand" THEN s
    ELSE
    LET s1 == [s EXCEPT !.isDrawing = TRUE]
    IN  IF pos = NoPos THEN s1
        ELSE CASE s.currentTool \in {"pen", "highlighter"} -> startDrawing(s1, pos)
               [] s.currentTool = "eraser" -> startErasing(s1, pos)
               [] s.currentTool = "text" -> createTextBox(s1, pos)
               [] s.currentTool = "select" -> startSelection(s1, pos)
               [] OTHER -> s1

handlePointerMove(s, pos) ==
    IF ~s.isDrawing \/ s.currentTool = "hand" THEN s
    ELSE IF pos = NoPos THEN s
    ELSE CASE s.currentTool \in {"pen", "highlighter"} ->
                IF s.isInShapeMode THEN resizeShape(s, pos)
                ELSE checkForShapeHold(continueDrawing(s, pos), pos)
           [] s.currentTool = "eraser" -> eraseAtPosition(s, pos)
           [] s.currentTool = "select" -> continueSelection(s, pos)
           [] OTHER -> s

\* the tail of handlePointerUp: the transient fields are nulled
ClearGesture(s) ==
    onContentChange(
        [s EXCEPT !.currentLine = 0,
                  !.currentShape = 0,
                  !.isInShapeMode = FALSE,
                  !.detectedShapeType = "none",
                  !.shapeAnchor = << >>,
                  !.shapeBounds = << >>,
                  !.lastMovePos = NoPos])

\* handlePointerUp with the position test dropped: the cleanup runs without one too
handlePointerUp_ClearWithoutPos(s, pos) ==
    IF ~s.isDrawing \/ s.currentTool = "hand" THEN s
    ELSE LET s1 == [s EXCEPT !.isDrawing = FALSE]
             s2 == IF s1.shapeHoldTimer
                   THEN [s1 EXCEPT !.shapeHoldTimer = FALSE, !.timerArmed = FALSE,
                              !.timerDue = 0]
                   ELSE s1
             s3 == CASE s.currentTool = "pen" ->
                            IF s2.isInShapeMode THEN finishShapeMode(s2) ELSE finishDrawing(s2)
                     [] s.currentTool = "highlighter" -> finishDrawing(s2)
                     [] s.currentTool = "eraser" -> finishErasing(s2)
                     [] s.currentTool = "select" -> finishSelection(s2)
                     [] OTHER -> s2
         IN  ClearGesture(s3)

handlePointerUp(s, pos) ==
    IF ~s.isDrawing \/ s.currentTool = "hand" THEN s
    ELSE
    LET s1 == [s EXCEPT !.isDrawing = FALSE]
        s2 == IF s1.shapeHoldTimer
              THEN [s1 EXCEPT !.shapeHoldTimer = FALSE, !.timerArmed = FALSE,
                              !.timerDue = 0]
              ELSE s1
        s3 == CASE s.currentTool = "pen" ->
                     IF s2.isInShapeMode THEN finishShapeMode(s2)
                     ELSE finishDrawing(s2)
                [] s.currentTool = "highlighter" -> finishDrawing(s2)
                [] s.currentTool = "eraser" -> finishErasing(s2)
                [] s.currentTool = "select" -> finishSelection(s2)
                [] OTHER -> s2
    IN  IF pos = NoPos THEN s1 ELSE ClearGesture(s3)

(***************************************************************************)
(* Serialized pages and the view's undo and redo.  A snapshot is the       *)
(* serialized page: JSON.stringify of equal pages gives equal strings.     *)
(***************************************************************************)
\* child.opacity() || 1, as the pair <<opacity, fade>>
SerializedOpacity(n) == IF n.opacity = 0 THEN <<100, 0>> ELSE <<n.opacity, n.fade>>

\* the entry serializePage pushes for one child; kind "" when it pushes none
SerializedChild(n) ==
    LET opacity == SerializedOpacity(n)
        thickness == IF n.strokeWidth = 0 THEN 1 ELSE n.strokeWidth
    IN  IF n.name = "background" THEN [kind |-> ""]
        ELSE IF n.cls = "Line" /\ Len(n.points) > 0
        THEN [kind |-> "stroke",
              type |-> IF opacity[1] < 100 \/ opacity[2] > 0
                       THEN "highlighter" ELSE "pen",
              points |-> n.points, color |-> n.stroke, thickness |-> thickness,
              opacity |-> opacity]
        ELSE IF n.cls = "Rect"
        THEN [kind |-> "shape", type |-> "rectangle", x |-> n.x, y |-> n.y,
              width |-> n.width, height |-> n.height, color |-> n.stroke,
              thickness |-> thickness, opacity |-> opacity]
        ELSE IF n.cls = "Circle"
        THEN [kind |-> "shape", type |-> "circle", x |-> n.x, y |-> n.y,
              radiusSq |-> n.radiusSq, color |-> n.stroke,
              thickness |-> thickness, opacity |-> opacity]
        ELSE [kind |-> ""]

\* the entries of one kind, in the order of the layer's children
RECURSIVE EntriesOf(_, _)
EntriesOf(lyr, kind) ==
    IF lyr = << >> THEN << >>
    ELSE LET e == SerializedChild(Head(lyr))
         IN  (IF e.kind = kind THEN <<e>> ELSE << >>) \o EntriesOf(Tail(lyr), kind)

serializePage(lyr) ==
    [strokes |-> EntriesOf(lyr, "stroke"), shapes |-> EntriesOf(lyr, "shape")]

\* the node loadPageContent constructs for one entry
LoadedNode(id, e) ==
    IF e.kind = "stroke"
    THEN [LineNode(id, "stroke", e.points, e.color, e.thickness, e.opacity[1])
             EXCEPT !.fade = e.opacity[2]]
    ELSE IF e.type = "rectangle"
    THEN [BlankNode EXCEPT !.id = id, !.name = "stroke", !.cls = "Rect",
                           !.x = e.x, !.y = e.y, !.width = e.width,
                           !.height = e.height, !.stroke = e.color,
                           !.strokeWidth = e.thickness, !.opacity = e.opacity[1],
                           !.fade = e.opacity[2]]
    ELSE [BlankNode EXCEPT !.id = id, !.name = "stroke", !.cls = "Circle",
                           !.x = e.x, !.y = e.y, !.radiusSq = e.radiusSq,
                           !.stroke = e.color, !.strokeWidth = e.thickness,
                           !.opacity = e.opacity[1], !.fade = e.opacity[2]]

\* loadPageContent: a new node for every entry, added to the layer in turn
RECURSIVE LoadEntries(_, _)
LoadEntries(s, entries) ==
    IF entries = << >> THEN s
    ELSE LoadEntries([s EXCEPT !.layer = Append(@, LoadedNode(FreshId(s), Head(entries)))],
                     Tail(entries))

\* restoreState: every child but the background is destroyed, then the
\* snapshot's strokes and shapes are loaded
restoreState(s, snapshot) ==
    LET cleared == [s EXCEPT !.layer = SelectSeq(@, LAMBDA n : n.name = "background")]
        loaded == LoadEntries(LoadEntries(cleared, snapshot.strokes), snapshot.shapes)
    IN  [loaded EXCEPT !.isDirty = TRUE]

\* the view's undo state together with the tools it restores into
View == [tools |-> State, undoStack |-> undoStack, redoStack |-> redoStack]

captureUndoState(v) ==
    LET stateSnapshot == serializePage(v.tools.layer)
        pushed == Append(v.undoStack, stateSnapshot)
    IN  IF v.undoStack = << >> \/ v.undoStack[Len(v.undoStack)] # stateSnapshot
        THEN [v EXCEPT !.undoStack = IF Len(pushed) > maxUndoSteps
                                     THEN Tail(pushed) ELSE pushed,
                       !.redoStack = << >>]
        ELSE v

undo(v) ==
    IF Len(v.undoStack) <= 1 THEN v
    ELSE LET currentState == v.undoStack[Len(v.undoStack)]
             popped == SubSeq(v.undoStack, 1, Len(v.undoStack) - 1)
         IN  [v EXCEPT !.undoStack = popped,
                       !.redoStack = Append(@, currentState),
                       !.tools = restoreState(@, popped[Len(popped)])]

redo(v) ==
    IF v.redoStack = << >> THEN v
    ELSE LET nextState == v.redoStack[Len(v.redoStack)]
         IN  [v EXCEPT !.redoStack = SubSeq(@, 1, Len(@) - 1),
                       !.undoStack = Append(@, nextState),
                       !.tools = restoreState(@, nextState)]

(***************************************************************************)
(* Actions: one per event the host delivers.                               *)
(***************************************************************************)
\* the fields after construction, the pointer up
InitTools ==
    /\ currentTool = "pen"
    /\ isDrawing = FALSE
    /\ layer = <<BackgroundNode>>
    /\ currentLine = 0
    /\ currentShape = 0
    /\ lastMovePos = NoPos
    /\ shapeHoldTimer = FALSE
    /\ timerArmed = FALSE
    /\ timerDue = 0
    /\ now = 0
    /\ isInShapeMode = FALSE
    /\ detectedShapeType = "none"
    /\ shapeAnchor = << >>
    /\ shapeBounds = << >>
    /\ lastEraserPos = NoPos
    /\ eraserTrail = 0
    /\ markedForDeletion = {}
    /\ originalOpacities = << >>
    /\ lassoLine = 0
    /\ lassoPoints = << >>
    /\ selectedShapes = {}
    /\ isDraggingSelection = FALSE
    /\ dragStartPos = NoPos
    /\ lassoPath = 0
    /\ selectionCenter = <<0, 0, 1>>
    /\ marchingAntsAnimationId = FALSE
    /\ frameScheduled = FALSE
    /\ isDirty = FALSE
    /\ pointerIsDown = FALSE

\* the view's fields as declared: nothing to save, the file holds the
\* content, no snapshot captured yet
InitView ==
    /\ saveDebounceTimer = FALSE
    /\ savesInFlight = << >>
    /\ fileData = 0
    /\ content = 0
    /\ undoStack = << >>
    /\ redoStack = << >>
    /\ undoDebounceTimer = FALSE

Init ==
    /\ InitTools
    /\ InitView
    /\ argPoints = << >>
    /\ retShape = "none"

\* the handler constructs a node
DownAddsChild(pos) ==
    /\ pos # NoPos
    /\ currentTool \in {"pen", "highlighter", "eraser", "text"}

\* the handler appends a point to the stroke or to the eraser trail
MoveTarget(pos) ==
    IF ~isDrawing \/ pos = NoPos THEN 0
    ELSE IF currentTool \in {"pen", "highlighter"} /\ ~isInShapeMode THEN currentLine
    ELSE IF currentTool = "eraser" THEN eraserTrail
    ELSE 0

\* mousedown / touchstart
PointerDown(pos) ==
    /\ ~pointerIsDown
    /\ DownAddsChild(pos) => Len(layer) < MaxChildren
    /\ pointerIsDown' = TRUE
    /\ Becomes(handlePointerDown(State, pos))
    /\ UNCHANGED <<argPoints, retShape, viewVars>>

\* mousemove / touchmove, with the pointer pressed or hovering
PointerMove(pos) ==
    /\ MoveTarget(pos) # 0 => Len(Node(layer, MoveTarget(pos)).points) < 2 * MaxPts
    /\ Becomes(handlePointerMove(State, pos))
    /\ UNCHANGED <<pointerIsDown, argPoints, retShape, viewVars>>

\* mouseup / touchend
PointerUp(pos) ==
    /\ pointerIsDown
    /\ pointerIsDown' = FALSE
    /\ Becomes(handlePointerUp(State, pos))
    /\ UNCHANGED <<argPoints, retShape, viewVars>>

\* DrawingView.setTool: a toolbar action, at any time
SetTool(tool) ==
    /\ tool # currentTool
    /\ Becomes(setTool(State, tool))
    /\ UNCHANGED <<pointerIsDown, argPoints, retShape, viewVars>>

\* the hold timer's callback runs; the field keeps its handle
TimerFire ==
    /\ timerArmed
    /\ Becomes(triggerShapeDetection([State EXCEPT !.timerArmed = FALSE,
                                                    !.timerDue = 0]))
    /\ UNCHANGED <<pointerIsDown, argPoints, retShape, viewVars>>

Next ==
    \/ \E pos \in DownPositions \cup {NoPos} : PointerDown(pos)
    \/ \E pos \in Positions \cup {NoPos} : PointerMove(pos)
    \/ \E pos \in Positions \cup {NoPos} : PointerUp(pos)
    \/ \E tool \in ToolInputs : SetTool(tool)
    \/ TimerFire

Spec == Init /\ [][Next]_vars

(***************************************************************************)
(* The classifier called directly on generated strokes.                    *)
(***************************************************************************)
Dirs == { <<1, 0>>, <<1, 1>>, <<0, 1>>, <<-1, 1>>,
          <<-1, 0>>, <<-1, -1>>, <<0, -1>>, <<1, -1>> }

\* points after walking n unit steps in direction d from the end of points
RECURSIVE Walk(_, _, _)
Walk(points, d, n) ==
    IF n = 0 THEN points
    ELSE Walk(points \o <<points[Len(points) - 1] + d[1], points[Len(points)] + d[2]>>,
              d, n - 1)

\* a polyline from the origin, minStep samples per segment
RECURSIVE PolyStroke(_)
PolyStroke(dirs) ==
    IF dirs = << >> THEN <<0, 0>>
    ELSE Walk(PolyStroke(SubSeq(dirs, 1, Len(dirs) - 1)), dirs[Len(dirs)], minStep)

\* an L: a samples to the right, then b samples down
LStroke(a, b) == Walk(Walk(<<0, 0>>, <<1, 0>>, a), <<0, 1>>, b)

Strokes ==
    { PolyStroke(dirs) : dirs \in UNION { [1..k -> Dirs] : k \in 1..MaxSegs } }
        \cup { LStroke(a, b) : a \in 1..MaxRun, b \in 1..MaxRun }

InitClassify ==
    /\ InitTools
    /\ InitView
    /\ argPoints \in Strokes
    /\ retShape = "pending"

Analyze ==
    /\ retShape = "pending"
    /\ retShape' = analyzeStrokeForShape(argPoints)
    /\ UNCHANGED <<currentTool, isDrawing, layer, currentLine, currentShape,
                   lastMovePos, shapeHoldTimer, timerArmed, timerDue, now,
                   isInShapeMode,
                   detectedShapeType, shapeAnchor, shapeBounds, lastEraserPos,
                   eraserTrail, markedForDeletion, originalOpacities, lassoLine,
                   lassoPoints, selectedShapes, isDraggingSelection,
                   dragStartPos, lassoPath, selectionCenter, marchingAntsAnimationId,
                   frameScheduled, isDirty, pointerIsDown, argPoints, viewVars>>

NextClassify == Analyze

SpecClassify == InitClassify /\ [][NextClassify]_vars

(***************************************************************************)
(* One pen gesture along a scripted path: the host delivers the points of  *)
(* argPoints one by one, the hold timer may fire, and in shape mode the    *)
(* pointer moves over ResizePositions or rests on the anchor.              *)
(***************************************************************************)
SquareScenario == <<0, 0, 100, 0, 100, 100, 0, 100>>

\* the path drawn at twice the size: every coordinate is even
Scale2(points) == [k \in 1..Len(points) |-> 2 * points[k]]

SnapScripts ==
    { Scale2(PolyStroke(<< <<1, 0>> >>)),
      Scale2(PolyStroke(<< <<1, 1>> >>)),
      Scale2(PolyStroke(<< <<1, 0>>, <<1, 1>> >>)),
      Scale2(PolyStroke(<< <<1, 0>>, <<1, 0>>, <<1, 1>> >>)),
      Scale2(PolyStroke(<< <<1, 0>>, <<1, 0>>, <<-1, 1>> >>)),
      Scale2(PolyStroke(<< <<1, 0>>, <<0, 1>>, <<-1, 0>>, <<0, -1>> >>)),
      SquareScenario }

ResizePositions == { <<0, 0>>, <<2, 10>>, <<20, 4>> }

InitSnap ==
    /\ InitTools
    /\ InitView
    /\ argPoints \in SnapScripts
    /\ retShape = "none"

\* the pointer goes down on the first point of the path
ScriptDown ==
    /\ ~pointerIsDown
    /\ Len(layer) < MaxChildren
    /\ pointerIsDown' = TRUE
    /\ Becomes(handlePointerDown(State, PointAt(argPoints, 0)))
    /\ UNCHANGED <<argPoints, retShape, viewVars>>

\* the pointer moves to the next point of the path
ScriptMove ==
    /\ pointerIsDown /\ isDrawing /\ ~isInShapeMode /\ currentLine # 0
    /\ LET drawn == Len(Node(layer, currentLine).points)
       IN  /\ drawn < Len(argPoints)
           /\ Becomes(handlePointerMove(State, PointAt(argPoints, drawn)))
    /\ UNCHANGED <<pointerIsDown, argPoints, retShape, viewVars>>

\* the pointer moves while the detected shape follows it
ResizeMove(pos) ==
    /\ pointerIsDown /\ isDrawing /\ isInShapeMode
    /\ pos # NoPos
    /\ Becomes(handlePointerMove(State, pos))
    /\ UNCHANGED <<pointerIsDown, argPoints, retShape, viewVars>>

NextSnap ==
    \/ ScriptDown
    \/ ScriptMove
    \/ TimerFire
    \/ \E pos \in ResizePositions \cup {shapeAnchor} : ResizeMove(pos)
    \/ \E pos \in ResizePositions \cup {NoPos} : PointerUp(pos)

SpecSnap == InitSnap /\ [][NextSnap]_vars

(***************************************************************************)
(* Pen, eraser and lasso on one page: strokes are drawn and erased at      *)
(* PenPositions, the lasso starts at LassoStarts and visits LassoVertices. *)
(***************************************************************************)
MaxLassoPts == 3        \* points of a lasso being drawn
MaxStrokePts == 2       \* points of a stroke drawn on the lasso page
MaxLassoChildren == 4   \* children of the layer, background included
MaxDrag == 18           \* how far the outline is dragged from the origin
MaxShift == 6           \* how far a selected node is dragged from its place

PenPositions == { <<4, 2>> }
\* where a lasso starts: around the stroke, away from it
LassoStarts == { <<0, 0>>, <<12, 12>> }
\* the vertices the lasso then visits, over and over
LassoVertices == << <<12, 0>>, <<0, 12>> >>
DragPositions == { <<6, 2>> }
LassoTools == {"pen", "eraser", "select"}

\* mousedown / touchstart
LassoDown(pos) ==
    /\ ~pointerIsDown
    /\ pos # NoPos => Len(layer) < MaxLassoChildren
    /\ pointerIsDown' = TRUE
    /\ Becomes(handlePointerDown(State, pos))
    /\ UNCHANGED <<argPoints, retShape, viewVars>>

\* mousemove / touchmove under the pen or the eraser
StrokeMove(pos) ==
    /\ currentTool # "select"
    /\ MoveTarget(pos) # 0 =>
           Len(Node(layer, MoveTarget(pos)).points) < 2 * MaxStrokePts
    /\ Becomes(handlePointerMove(State, pos))
    /\ UNCHANGED <<pointerIsDown, argPoints, retShape, viewVars>>

\* mousemove / touchmove while a lasso is drawn: on to the next vertex
LassoMove ==
    /\ currentTool = "select" /\ isDrawing /\ ~isDraggingSelection
    /\ lassoLine # 0
    /\ Len(lassoPoints) < 2 * MaxLassoPts
    /\ LET k == ((Len(lassoPoints) \div 2 - 1) % Len(LassoVertices)) + 1
       IN  Becomes(handlePointerMove(State, LassoVertices[k]))
    /\ UNCHANGED <<pointerIsDown, argPoints, retShape, viewVars>>

\* mousemove / touchmove while the selection is dragged
DragMove(pos) ==
    /\ currentTool = "select" /\ isDrawing /\ isDraggingSelection
    /\ Becomes(handlePointerMove(State, pos))
    /\ \A k \in 1..Len(lassoPoints') : Abs(lassoPoints'[k]) <= MaxDrag
    /\ \A k \in 1..Len(layer') :
           Abs(layer'[k].x) <= MaxShift /\ Abs(layer'[k].y) <= MaxShift
    /\ UNCHANGED <<pointerIsDown, argPoints, retShape, viewVars>>

\* the host runs the animation frame it was asked for
AnimationFrame ==
    /\ frameScheduled
    /\ Becomes(animate(State))
    /\ UNCHANGED <<pointerIsDown, argPoints, retShape, viewVars>>

\* the toolbar, the select tool included
SetLassoTool(tool) ==
    /\ tool # currentTool
    /\ Becomes(setTool(State, tool))
    /\ UNCHANGED <<pointerIsDown, argPoints, retShape, viewVars>>

NextLasso ==
    \/ \E pos \in LassoStarts \cup {NoPos} : currentTool = "select" /\ LassoDown(pos)
    \/ \E pos \in PenPositions \cup {NoPos} : currentTool # "select" /\ LassoDown(pos)
    \/ \E pos \in PenPositions : StrokeMove(pos)
    \/ LassoMove
    \/ \E pos \in DragPositions : DragMove(pos)
    \/ \E pos \in PenPositions \cup {NoPos} : PointerUp(pos)
    \/ \E tool \in LassoTools : SetLassoTool(tool)
    \/ TimerFire
    \/ AnimationFrame

SpecLasso == Init /\ [][NextLasso]_vars

(***************************************************************************)
(* The eraser on a page that holds one stroke.                             *)
(***************************************************************************)
\* the strokes: one segment level or slanted, a point, a corner of two segments
ErasedStrokes ==
    { <<0, 50, 100, 50>>, <<40, 50, 60, 50>>, <<50, 50, 50, 50>>,
      <<0, 0, 40, 30>>, <<50, 0, 50, 38>>, <<50, 50>>,
      <<0, 50, 40, 50, 40, 90>>, <<100, 50, 0, 50>> }

StrokeWidths == {2, 3, 10}

\* where the eraser is pressed
EraserCentres ==
    { <<50, 50>>, <<50, 61>>, <<50, 62>>, <<50, 39>>, <<50, 38>>, <<111, 50>>,
      <<112, 50>>, <<11, 27>>, <<10, 28>>, <<12, 26>>, <<50, 49>>, <<51, 79>>,
      <<70, 50>>, <<71, 50>>, <<72, 50>>, <<50, 65>>, <<50, 66>> }

\* where the pressed eraser is moved to
EraserMoves == { <<50, 61>>, <<50, 62>>, <<11, 27>> }

InitErase ==
    /\ argPoints = << >>
    /\ retShape = "none"
    /\ \E points \in ErasedStrokes, w \in StrokeWidths :
          /\ layer = <<BackgroundNode,
                       LineNode(2, "stroke", points, PenSettings.color, w,
                                PenSettings.opacity)>>
          /\ currentTool = "eraser"
          /\ isDrawing = FALSE
          /\ currentLine = 0
          /\ currentShape = 0
          /\ lastMovePos = NoPos
          /\ shapeHoldTimer = FALSE
          /\ timerArmed = FALSE
          /\ timerDue = 0
          /\ now = 0
          /\ isInShapeMode = FALSE
          /\ detectedShapeType = "none"
          /\ shapeAnchor = << >>
          /\ shapeBounds = << >>
          /\ lastEraserPos = NoPos
          /\ eraserTrail = 0
          /\ markedForDeletion = {}
          /\ originalOpacities = << >>
          /\ lassoLine = 0
          /\ lassoPoints = << >>
          /\ selectedShapes = {}
          /\ isDraggingSelection = FALSE
          /\ dragStartPos = NoPos
          /\ lassoPath = 0
          /\ selectionCenter = <<0, 0, 1>>
          /\ marchingAntsAnimationId = FALSE
          /\ frameScheduled = FALSE
          /\ isDirty = FALSE
          /\ pointerIsDown = FALSE
    /\ InitView

\* the eraser is moved with the pointer down
EraseMove(pos) == pointerIsDown /\ isDrawing /\ PointerMove(pos)

NextErase ==
    \/ \E pos \in EraserCentres : PointerDown(pos)
    \/ \E pos \in EraserMoves : EraseMove(pos)
    \/ \E pos \in EraserMoves \cup {NoPos} : PointerUp(pos)

SpecErase == InitErase /\ [][NextErase]_vars

(***************************************************************************)
(* The view's saving: the 500 ms debounce timer, the 40 s autosave         *)
(* interval and saveDrawing, which awaits the vault write.                 *)
(***************************************************************************)
MaxChanges == 4     \* content changes made in one run
MaxInFlight == 2    \* saves awaiting the vault write at one time

\* the fields of DrawingTools, which saving leaves alone
toolFields ==
    <<currentTool, isDrawing, layer, currentLine, currentShape, lastMovePos,
      shapeHoldTimer, timerArmed, timerDue, now, isInShapeMode,
      detectedShapeType, shapeAnchor,
      shapeBounds, lastEraserPos, eraserTrail, markedForDeletion,
      originalOpacities, lassoLine, lassoPoints, selectedShapes,
      isDraggingSelection, dragStartPos, lassoPath, selectionCenter, marchingAntsAnimationId,
      frameScheduled, pointerIsDown, argPoints, retShape>>

\* a gesture changes the pages and the tools call the view's onContentChange
ContentChange ==
    /\ content < MaxChanges
    /\ content' = content + 1
    /\ isDirty' = TRUE
    /\ saveDebounceTimer' = TRUE
    /\ undoDebounceTimer' = TRUE
    /\ UNCHANGED <<savesInFlight, fileData, undoStack, redoStack, toolFields>>

\* saveDrawing up to its await: the pages are serialized and the write begins
StartSave ==
    /\ Len(savesInFlight) < MaxInFlight
    /\ savesInFlight' = Append(savesInFlight, content)

\* the debounce timer's callback
DebounceFire ==
    /\ saveDebounceTimer
    /\ saveDebounceTimer' = FALSE
    /\ IF isDirty THEN StartSave ELSE UNCHANGED savesInFlight
    /\ UNCHANGED <<isDirty, fileData, content, undoVars, toolFields>>

\* the autosave interval's callback
IntervalFire ==
    /\ isDirty
    /\ StartSave
    /\ UNCHANGED <<isDirty, saveDebounceTimer, fileData, content, undoVars, toolFields>>

\* the vault write of the oldest save resolves and saveDrawing resumes
SaveComplete ==
    /\ savesInFlight # << >>
    /\ fileData' = Head(savesInFlight)
    /\ savesInFlight' = Tail(savesInFlight)
    /\ isDirty' = FALSE
    /\ UNCHANGED <<saveDebounceTimer, content, undoVars, toolFields>>

\* the capture timer's callback
CaptureFire ==
    /\ undoDebounceTimer
    /\ undoDebounceTimer' = FALSE
    /\ undoStack' = captureUndoState(View).undoStack
    /\ redoStack' = captureUndoState(View).redoStack
    /\ UNCHANGED <<saveDebounceTimer, savesInFlight, fileData, content, isDirty,
                   toolFields>>

NextSave ==
    \/ ContentChange
    \/ CaptureFire
    \/ DebounceFire
    \/ IntervalFire
    \/ SaveComplete

SpecSave == Init /\ [][NextSave]_vars

(***************************************************************************)
(* The pen with the host's clock: the hold callback runs when it is due.   *)
(***************************************************************************)
TickMs == 500       \* the clock advances in steps of this many milliseconds
MaxNow == 2500      \* the clock stops here

\* pointer positions 0, 4, 8 and 12 px apart
HoldPositions == { <<0, 0>>, <<4, 0>>, <<12, 0>> }

\* time passes
Tick ==
    /\ now < MaxNow
    /\ Becomes([State EXCEPT !.now = now + TickMs])
    /\ UNCHANGED <<pointerIsDown, argPoints, retShape, viewVars>>

\* the host runs the hold callback, not before it is due
TimedFire == now >= timerDue /\ TimerFire

NextHold ==
    \/ \E pos \in DownPositions \cup {NoPos} : PointerDown(pos)
    \/ \E pos \in HoldPositions : PointerMove(pos)
    \/ \E pos \in DownPositions \cup {NoPos} : PointerUp(pos)
    \/ TimedFire
    \/ Tick

SpecHold == Init /\ [][NextHold]_vars

(***************************************************************************)
(* Dragging and scaling a selection: a page that holds two strokes and a   *)
(* rectangle, the select tool chosen.  The selection is scaled by the      *)
(* view's wheel and pinch handlers when the pointer is inside the outline. *)
(***************************************************************************)
MaxScaled == 40     \* how far scaling may take a point of a line
MaxDragged == 16    \* how far dragging may take a point of the outline
MaxOffset == 8      \* how far dragging and scaling may take a node's position
MaxWidth == 8       \* how wide scaling may make a stroke
MaxDragChildren == 6    \* children of the layer, background included

\* where a lasso starts, and where the pointer is pressed to drag the selection
SelectStarts == { <<0, 0>> }
SelectDowns == { <<2, 2>> }
\* where the pressed pointer is moved to while a selection is dragged
SelectMoves == { <<2, 2>>, <<6, 2>>, <<4, 6>> }
\* distance of the two fingers over the distance at the previous touchmove
ScaleFactors == { 2 }

DragPage ==
    <<BackgroundNode,
      LineNode(2, "stroke", <<4, 2, 6, 4>>, PenSettings.color, 2, PenSettings.opacity),
      [BlankNode EXCEPT !.id = 3, !.name = "stroke", !.cls = "Rect", !.x = 2,
                        !.y = 2, !.width = 4, !.height = 2, !.stroke = "#000000",
                        !.strokeWidth = 2],
      LineNode(4, "stroke", <<10, 10, 12, 12>>, PenSettings.color, 2,
               PenSettings.opacity)>>

InitDragTools ==
    /\ argPoints = << >>
    /\ retShape = "none"
    /\ layer = DragPage
    /\ currentTool = "select"
    /\ isDrawing = FALSE
    /\ currentLine = 0
    /\ currentShape = 0
    /\ lastMovePos = NoPos
    /\ shapeHoldTimer = FALSE
    /\ timerArmed = FALSE
    /\ timerDue = 0
    /\ now = 0
    /\ isInShapeMode = FALSE
    /\ detectedShapeType = "none"
    /\ shapeAnchor = << >>
    /\ shapeBounds = << >>
    /\ lastEraserPos = NoPos
    /\ eraserTrail = 0
    /\ markedForDeletion = {}
    /\ originalOpacities = << >>
    /\ lassoLine = 0
    /\ lassoPoints = << >>
    /\ selectedShapes = {}
    /\ isDraggingSelection = FALSE
    /\ dragStartPos = NoPos
    /\ lassoPath = 0
    /\ selectionCenter = <<0, 0, 1>>
    /\ marchingAntsAnimationId = FALSE
    /\ frameScheduled = FALSE
    /\ isDirty = FALSE
    /\ pointerIsDown = FALSE

InitDrag == InitDragTools /\ InitView

\* every scaled coordinate of the selection is a whole number
WholeScale(scaleFactor) ==
    /\ (scaleFactor - 1) * selectionCenter[1] % selectionCenter[3] = 0
    /\ (scaleFactor - 1) * selectionCenter[2] % selectionCenter[3] = 0

\* the children stay within the bounds of the model
WithinBounds(lyr) ==
    \A k \in 1..Len(lyr) :
        /\ Abs(lyr[k].x) <= MaxOffset /\ Abs(lyr[k].y) <= MaxOffset
        /\ lyr[k].strokeWidth <= MaxWidth
        /\ \A i \in 1..Len(lyr[k].points) : Abs(lyr[k].points[i]) <= MaxScaled

\* mousedown / touchstart on the page
SelectDown(pos) ==
    /\ ~pointerIsDown
    /\ pointerIsDown' = TRUE
    /\ Becomes(handlePointerDown(State, pos))
    /\ Len(layer') <= MaxDragChildren
    /\ UNCHANGED <<argPoints, retShape, viewVars>>

\* mousemove / touchmove while the selection is dragged
SelectionMove(pos) ==
    /\ pointerIsDown /\ isDrawing /\ isDraggingSelection
    /\ Becomes(handlePointerMove(State, pos))
    /\ \A k \in 1..Len(lassoPoints') : Abs(lassoPoints'[k]) <= MaxDragged
    /\ WithinBounds(layer')
    /\ UNCHANGED <<pointerIsDown, argPoints, retShape, viewVars>>

\* wheel with ctrl, or touchmove of two fingers, at pos
ScaleSelection(pos, scaleFactor) ==
    /\ currentTool = "select"
    /\ isPointInSelection(State, pos)
    /\ WholeScale(scaleFactor)
    /\ Becomes(scaleSelection(State, scaleFactor))
    /\ WithinBounds(layer')
    /\ UNCHANGED <<pointerIsDown, argPoints, retShape, viewVars>>

NextDrag ==
    \/ \E pos \in SelectStarts : SelectDown(pos)
    \/ \E pos \in SelectDowns : isPointInSelection(State, pos) /\ SelectDown(pos)
    \/ LassoMove
    \/ \E pos \in SelectMoves : SelectionMove(pos)
    \/ \E pos \in SelectMoves \cup {NoPos} : PointerUp(pos)
    \/ \E pos \in SelectMoves, scaleFactor \in ScaleFactors :
           ScaleSelection(pos, scaleFactor)

SpecDrag == InitDrag /\ [][NextDrag]_vars

(***************************************************************************)
(* A lasso drawn around the same page along a square of side 100, and      *)
(* presses inside and outside the frozen outline.                          *)
(***************************************************************************)
MaxPolyPts == 4     \* points of a lasso being drawn

\* the vertices the lasso visits after its first point
PolyVertices == << <<100, 0>>, <<100, 100>>, <<0, 100>> >>
\* where the pointer is pressed: the lasso's first point, inside, outside
PolyPresses == { <<0, 0>>, <<50, 50>>, <<150, 50>>, <<50, -1>>, <<99, 1>>, <<-1, 100>> }

\* mousemove / touchmove while the lasso is drawn: on to the next vertex
PolyMove ==
    /\ pointerIsDown /\ isDrawing /\ ~isDraggingSelection
    /\ lassoLine # 0
    /\ Len(lassoPoints) < 2 * MaxPolyPts
    /\ Becomes(handlePointerMove(State, PolyVertices[Len(lassoPoints) \div 2]))
    /\ UNCHANGED <<pointerIsDown, argPoints, retShape, viewVars>>

NextPoly ==
    \/ \E pos \in PolyPresses : SelectDown(pos)
    \/ PolyMove
    \/ \E pos \in PolyPresses \cup {NoPos} : PointerUp(pos)

SpecPoly == InitDrag /\ [][NextPoly]_vars

(***************************************************************************)
(* Selecting and erasing on the same page while the view captures undo     *)
(* snapshots, saves, undoes and redoes.                                    *)
(***************************************************************************)
MaxSnapshots == 2      \* snapshots on the undo stack
MaxUndoChildren == 5   \* children of the layer
MaxFade == 1           \* times a child has been dimmed by a selection

\* where the eraser is pressed: on all three children, on the last stroke
UndoPresses == { <<4, 2>>, <<20, 14>> }
\* the tool chosen from the toolbar after the selections
UndoTools == {"eraser"}

UndoBounds ==
    /\ Len(layer') <= MaxUndoChildren
    /\ \A k \in 1..Len(layer') : layer'[k].fade <= MaxFade

\* DrawingView.onContentChange, when the handler has called it: the capture
\* timer and the save timer are started again
ViewHears(notified) ==
    /\ undoDebounceTimer' = (notified \/ undoDebounceTimer)
    /\ saveDebounceTimer' = (notified \/ saveDebounceTimer)
    /\ UNCHANGED <<savesInFlight, fileData, content, undoStack, redoStack>>

\* mousedown / touchstart
UndoDown(pos) ==
    /\ ~pointerIsDown
    /\ pointerIsDown' = TRUE
    /\ Becomes(handlePointerDown(State, pos))
    /\ UndoBounds
    /\ ViewHears(handlePointerDown([State EXCEPT !.isDirty = FALSE], pos).isDirty)
    /\ UNCHANGED <<argPoints, retShape>>

\* mousemove / touchmove while a lasso is drawn
UndoMove ==
    /\ currentTool = "select" /\ isDrawing /\ ~isDraggingSelection
    /\ lassoLine # 0
    /\ Len(lassoPoints) < 2 * MaxLassoPts
    /\ LET k == ((Len(lassoPoints) \div 2 - 1) % Len(LassoVertices)) + 1
           pos == LassoVertices[k]
       IN  /\ Becomes(handlePointerMove(State, pos))
           /\ ViewHears(handlePointerMove([State EXCEPT !.isDirty = FALSE], pos).isDirty)
    /\ UNCHANGED <<pointerIsDown, argPoints, retShape>>

\* mouseup / touchend
UndoUp(pos) ==
    /\ pointerIsDown
    /\ pointerIsDown' = FALSE
    /\ Becomes(handlePointerUp(State, pos))
    /\ UndoBounds
    /\ ViewHears(handlePointerUp([State EXCEPT !.isDirty = FALSE], pos).isDirty)
    /\ UNCHANGED <<argPoints, retShape>>

\* the toolbar's tool buttons, the pointer being on the toolbar
UndoSetTool(tool) == ~pointerIsDown /\ SetTool(tool)

\* the capture timer's callback, while the stack has room
CaptureSnapshot == Len(undoStack) < MaxSnapshots /\ CaptureFire

\* the save timer's callback: saveDrawing serializes the page and awaits;
\* the first save of the run only
SerializeSave ==
    /\ saveDebounceTimer
    /\ saveDebounceTimer' = FALSE
    /\ savesInFlight = << >> /\ fileData = serializePage(DragPage)
    /\ savesInFlight' = IF isDirty THEN Append(savesInFlight, serializePage(layer))
                        ELSE savesInFlight
    /\ UNCHANGED <<isDirty, fileData, content, undoVars, toolFields>>

\* the toolbar's undo, the pointer being on the toolbar
Undo ==
    /\ ~pointerIsDown
    /\ Becomes(undo(View).tools)
    /\ UndoBounds
    /\ undoStack' = undo(View).undoStack
    /\ redoStack' = undo(View).redoStack
    /\ UNCHANGED <<pointerIsDown, argPoints, retShape, saveDebounceTimer,
                   savesInFlight, fileData, content, undoDebounceTimer>>

\* the toolbar's redo
Redo ==
    /\ ~pointerIsDown
    /\ Becomes(redo(View).tools)
    /\ UndoBounds
    /\ undoStack' = redo(View).undoStack
    /\ redoStack' = redo(View).redoStack
    /\ UNCHANGED <<pointerIsDown, argPoints, retShape, saveDebounceTimer,
                   savesInFlight, fileData, content, undoDebounceTimer>>

NextUndo ==
    \/ \E pos \in SelectStarts : currentTool = "select" /\ UndoDown(pos)
    \/ \E pos \in UndoPresses : currentTool = "eraser" /\ UndoDown(pos)
    \/ UndoMove
    \/ \E pos \in SelectStarts : UndoUp(pos)
    \/ \E tool \in UndoTools : UndoSetTool(tool)
    \/ CaptureSnapshot
    \/ SerializeSave
    \/ SaveComplete
    \/ Undo
    \/ Redo

\* the view after onOpen, the file holding the serialized page
InitUndo ==
    /\ InitDragTools
    /\ saveDebounceTimer = FALSE
    /\ savesInFlight = << >>
    /\ fileData = serializePage(layer)
    /\ content = 0
    /\ undoStack = <<serializePage(layer)>>
    /\ redoStack = << >>
    /\ undoDebounceTimer = FALSE

SpecUndo == InitUndo /\ [][NextUndo]_vars

(***************************************************************************)
(* Properties.                                                             *)
(***************************************************************************)
\* the step delivers the pointer-up of the current gesture
PointerUpStep == pointerIsDown /\ ~pointerIsDown'

\* the step replaces the in-progress stroke by a shape
SnapStep == ~isInShapeMode /\ isInShapeMode'

UserIds(lyr) == { lyr[k].id : k \in { j \in 1..Len(lyr) : lyr[j].name = "stroke" } }
HasTrail(lyr) == \E k \in 1..Len(lyr) : lyr[k].name = "eraser-trail"
HasDimmed(lyr) == \E k \in 1..Len(lyr) : lyr[k].stroke = "#888888"

\* the fields of the tools other than isDrawing, and the page content
fieldsButIsDrawing ==
    <<currentTool, layer, currentLine, currentShape, lastMovePos, shapeHoldTimer,
      timerArmed, timerDue, now, isInShapeMode, detectedShapeType, shapeAnchor,
      shapeBounds,
      lastEraserPos, eraserTrail, markedForDeletion, originalOpacities,
      lassoLine, lassoPoints, selectedShapes, isDraggingSelection, dragStartPos,
      lassoPath, selectionCenter, marchingAntsAnimationId, frameScheduled, isDirty>>

\* C1: the pointer-up of a gesture in progress, under any tool but hand and
\* with or without a pointer position, leaves no hold timer pending and every
\* transient hold field null.
C1_PointerUpClearsHoldState ==
    [][(PointerUpStep /\ isDrawing /\ currentTool # "hand") =>
          /\ ~timerArmed'
          /\ ~isInShapeMode'
          /\ currentLine' = 0
          /\ currentShape' = 0
          /\ detectedShapeType' = "none"
          /\ shapeAnchor' = << >>
          /\ shapeBounds' = << >>
          /\ lastMovePos' = NoPos]_vars

\* C2: a stroke is replaced by a shape only while isDrawing is true, that is
\* never after the gesture that drew it has ended.
C2_SnapOnlyWhileDrawing ==
    [][(SnapStep /\ currentLine # 0 /\ currentLine' = 0) => isDrawing]_vars

\* C3: a tool switch between a pen pointer-down and its pointer-up leaves no
\* hold timer pending.
C3_SetToolCancelsHoldTimer ==
    [][(currentTool = "pen" /\ currentTool' # "pen" /\ pointerIsDown /\ isDrawing)
          => ~timerArmed']_vars

\* C4: a highlighter stroke is never replaced by a shape.
C4_HighlighterNeverSnapped ==
    [][(SnapStep /\ currentLine # 0) =>
          Node(layer, currentLine).stroke # HighlighterSettings.color]_vars

\* C5: at most one of the in-progress stroke and the in-progress shape exists.
C5_AtMostOneInProgress == ~(currentLine # 0 /\ currentShape # 0)

\* C6: while an eraser session is open no user content leaves the page before
\* the pointer-up, and the pointer-up removes exactly the marked items.
C6_TwoPhaseErase ==
    [][(eraserTrail # 0 /\ pointerIsDown /\ isDrawing) =>
          IF PointerUpStep
          THEN UserIds(layer') = UserIds(layer) \ markedForDeletion
          ELSE UserIds(layer) \subseteq UserIds(layer')]_vars

\* C7: once the pointer is up no eraser session remains: nothing is marked,
\* nothing is shown dimmed and grey, and no eraser trail is on the layer.
C7_NoEraserSessionAfterUp ==
    ~pointerIsDown =>
        /\ markedForDeletion = {}
        /\ ~HasDimmed(layer)
        /\ ~HasTrail(layer)

NullPositionStep ==
    PointerDown(NoPos) \/ PointerMove(NoPos) \/ PointerUp(NoPos)

CornerCount(points) ==
    Len(findSignificantCorners(points, StrokeWidth(points), StrokeHeight(points)))

\* C9 as stated: a stroke whose bounding box is at least 3.5 times longer than
\* wide, 3.5 included, is classified as a line.
C9_LineAtLeast35 ==
    (retShape # "pending"
       /\ (2 * StrokeWidth(argPoints) >= 7 * StrokeHeight(argPoints)
             \/ 2 * StrokeHeight(argPoints) >= 7 * StrokeWidth(argPoints)))
        => retShape = "line"

\* C9, amended: a stroke whose bounding box is more than 3.5 times longer than
\* wide is classified as a line, whatever its corners.
C9_LineAbove35 ==
    (retShape # "pending"
       /\ (2 * StrokeWidth(argPoints) > 7 * StrokeHeight(argPoints)
             \/ 2 * StrokeHeight(argPoints) > 7 * StrokeWidth(argPoints)))
        => retShape = "line"

\* an elongated stroke with a sharp bend, classified as a line
C9_Witness ==
    /\ retShape = "line"
    /\ 2 * StrokeWidth(argPoints) > 7 * StrokeHeight(argPoints)
    /\ StrokeHeight(argPoints) > 0
    /\ CornerCount(argPoints) >= 3

\* max / min >= 1.3, Infinity included
RatioAtLeast13(width, height) ==
    \/ Min2(width, height) > 0 /\ 10 * Max2(width, height) >= 13 * Min2(width, height)
    \/ Min2(width, height) = 0 /\ Max2(width, height) > 0

\* C10: a stroke not classified as a line gets the first match of: 3 corners,
\* triangle; 4 or more, rectangle; 2 corners and start and end closer than a
\* quarter of the longer side, triangle; else circle below ratio 1.3 and oval
\* from 1.3 on.
C10_ClassifierTable ==
    (retShape \notin {"pending", "line"}) =>
        LET n == CornerCount(argPoints)
            w == StrokeWidth(argPoints)
            h == StrokeHeight(argPoints)
            closed == IsClosed(argPoints, w, h)
        IN  /\ n = 3 => retShape = "triangle"
            /\ n >= 4 => retShape = "rectangle"
            /\ (n = 2 /\ closed) => retShape = "triangle"
            /\ (n < 2 \/ (n = 2 /\ ~closed)) =>
                  /\ RatioBelow13(w, h) => retShape = "circle"
                  /\ RatioAtLeast13(w, h) => retShape = "oval"

\* a stroke with two corners that closes on itself, classified as a triangle
C10_Witness ==
    /\ retShape = "triangle"
    /\ CornerCount(argPoints) = 2
    /\ IsClosed(argPoints, StrokeWidth(argPoints), StrokeHeight(argPoints))

(***************************************************************************)
(* Hold-to-snap scenarios and the resizer.                                 *)
(***************************************************************************)
\* the step turns the whole scripted path into a shape
SnapsWholePath ==
    /\ SnapStep
    /\ currentLine # 0
    /\ Node(layer, currentLine).points = argPoints

\* C11: when the hold timer fires on the pen stroke 0,0 100,0 100,100 0,100
\* the classifier returns rectangle and the shape's bounds are 0,0,100,100.
C11_SquareScenarioIsRectangle ==
    [][(SnapsWholePath /\ argPoints = SquareScenario) =>
          /\ detectedShapeType' = "rectangle"
          /\ shapeBounds' = <<0, 0, 100, 100>>]_vars

ShapeModeMove == \E pos \in ResizePositions \cup {shapeAnchor} : ResizeMove(pos)

\* width and height of the bounding box of a point list
PointsWidth(points) == MaxOf(Xs(points)) - MinOf(Xs(points))
PointsHeight(points) == MaxOf(Ys(points)) - MinOf(Ys(points))

\* every dimension of the shape is at least minShapeSize
DimensionsFloored(kind, n) ==
    CASE kind = "circle" -> n.radiusSq >= Sq(minShapeSize)
      [] kind = "oval" -> n.radiusX >= minShapeSize /\ n.radiusY >= minShapeSize
      [] kind = "rectangle" -> n.width >= minShapeSize /\ n.height >= minShapeSize
      [] kind = "triangle" -> /\ PointsWidth(n.points) >= minShapeSize
                              /\ PointsHeight(n.points) >= minShapeSize
      [] kind = "line" -> DistSq(PointAt(n.points, 0), PointAt(n.points, 2))
                              >= Sq(minShapeSize)
      [] OTHER -> TRUE

\* C12: after every resizeShape call in shape mode, for every kind and every
\* pointer position, the anchor included, every dimension of the shape is at
\* least 5.
C12_ResizeFloorsDimensions ==
    [][(ShapeModeMove /\ currentShape # 0) =>
          DimensionsFloored(detectedShapeType', Node(layer', currentShape'))]_vars

\* twice the centre of the shape's bounding box
TwiceCentre(kind, n) ==
    CASE kind \in {"circle", "oval"} -> <<2 * n.x, 2 * n.y>>
      [] kind = "rectangle" -> <<2 * n.x + n.width, 2 * n.y + n.height>>
      [] kind = "triangle" -> <<MinOf(Xs(n.points)) + MaxOf(Xs(n.points)),
                                MinOf(Ys(n.points)) + MaxOf(Ys(n.points))>>

\* C13: a circle, oval, triangle or rectangle in shape mode is centred on the
\* anchor, and a rectangle's width and height are never negative.
C13_ShapeCentredOnAnchor ==
    (currentShape # 0 /\ shapeAnchor # << >>
        /\ detectedShapeType \in {"circle", "oval", "triangle", "rectangle"}) =>
        LET n == Node(layer, currentShape)
        IN  /\ TwiceCentre(detectedShapeType, n)
                  = <<2 * shapeAnchor[1], 2 * shapeAnchor[2]>>
            /\ n.width >= 0 /\ n.height >= 0

\* a rectangle that a resize has made larger than the stroke it came from
C13_Witness ==
    /\ currentShape # 0
    /\ detectedShapeType = "rectangle"
    /\ Node(layer, currentShape).width > shapeBounds[3] - shapeBounds[1]
    /\ Node(layer, currentShape).x < shapeAnchor[1]

(***************************************************************************)
(* The lasso selection.                                                    *)
(***************************************************************************)
\* the children of these ids that are still on the layer
NodesOf(lyr, ids) == { lyr[k] : k \in { j \in 1..Len(lyr) : lyr[j].id \in ids } }

\* a step that makes a selection, or makes another one
SelectionMade == selectedShapes' # selectedShapes /\ selectedShapes' # {}

\* a press of the select tool at pos, outside the outline of the selection
PressOutside(pos) ==
    /\ currentTool = "select"
    /\ lassoPath # 0
    /\ ~isPointInLasso(lassoPoints, pos[1], pos[2])
    /\ LassoDown(pos)

\* C14: the outline exists exactly when something is selected; a selection is
\* made only by lifting the pointer under the select tool on a lasso of at
\* least three points that touches at least one stroke or shape, and every
\* selected child is one the closed lasso touches; a press of the select tool
\* outside the outline clears the selection and starts a new lasso there.
C14_SelectionLifecycle ==
    /\ (lassoPath # 0 <=> selectedShapes # {})
    /\ [][ /\ (lassoPath' # 0 <=> selectedShapes' # {})
           /\ SelectionMade =>
                 /\ PointerUpStep
                 /\ currentTool = "select"
                 /\ selectedShapes = {}
                 /\ lassoLine # 0
                 /\ Len(lassoPoints) >= 6
                 /\ NodesOf(layer', selectedShapes') # {}
                 /\ \A n \in NodesOf(layer', selectedShapes') :
                        /\ n.name \in {"stroke", "shape"}
                        /\ shapeIntersectsLasso(lassoPoints', n)
           /\ \A pos \in LassoStarts :
                 PressOutside(pos) =>
                     /\ selectedShapes' = {}
                     /\ lassoPath' = 0
                     /\ \A k \in 1..Len(layer') : layer'[k].name # "lasso-path"
                     /\ lassoLine' # 0
                     /\ lassoPoints' = <<pos[1], pos[2]>>
         ]_vars

\* a stroke was selected and dragged, a press outside the outline cleared the
\* selection, and the new lasso is being drawn
C14_Witness ==
    /\ lassoPath = 0 /\ selectedShapes = {}
    /\ lassoLine # 0
    /\ \E k \in 1..Len(layer) : layer[k].name = "stroke" /\ layer[k].x # 0

\* the pointer is lifted under the select tool on a lasso of 1 or 2 points
ShortLassoUp ==
    /\ PointerUpStep
    /\ currentTool = "select"
    /\ ~isDraggingSelection
    /\ lassoLine # 0
    /\ Len(lassoPoints) < 6

\* the strokes and shapes of the page
Content(lyr) == { lyr[k] : k \in { j \in 1..Len(lyr) : lyr[j].name \in {"stroke", "shape"} } }

\* C15: lifting the pointer on a lasso of fewer than three points aborts it:
\* nothing is selected, the lasso line leaves the layer, the lasso points are
\* emptied and the strokes and shapes of the page stay as they were.
C15_ShortLassoAborts ==
    [][ ShortLassoUp =>
          /\ selectedShapes' = {} /\ lassoPath' = 0
          /\ lassoLine' = 0
          /\ \A k \in 1..Len(layer') : layer'[k].name # "lasso-drawing"
          /\ lassoPoints' = << >>
          /\ Content(layer') = Content(layer)
      ]_vars

\* the toolbar switches away from the select tool
LeavesSelect == currentTool = "select" /\ currentTool' # "select"

\* the selection is cleared
SelectionCleared == selectedShapes # {} /\ selectedShapes' = {}

\* C16: the marching-ants loop is cancelled by whatever supersedes the
\* selection: after a switch away from the select tool, and after the
\* selection is cleared, marchingAntsAnimationId is null and no animation
\* frame remains asked for.
C16_MarchingAntsCancelled ==
    [][ (LeavesSelect \/ SelectionCleared) =>
            (~marchingAntsAnimationId' /\ ~frameScheduled') ]_vars

\* the names of the children that are not user content
DecorationNames == {"background", "lasso-drawing", "lasso-path", "eraser-trail"}

\* C17: the eraser and the lasso act on user content only: no child of the
\* layer that is marked for deletion or selected is named background,
\* lasso-drawing, lasso-path or eraser-trail.
C17_OnlyUserContentMarkedOrSelected ==
    \A n \in NodesOf(layer, markedForDeletion \cup selectedShapes) :
        n.name \notin DecorationNames

\* the eraser has marked a selected stroke while the outline of the selection
\* and the eraser trail are on the layer
C17_Witness ==
    /\ markedForDeletion # {} /\ selectedShapes # {}
    /\ NodesOf(layer, markedForDeletion) # {}
    /\ HasTrail(layer)
    /\ \E k \in 1..Len(layer) : layer[k].name = "lasso-path"

(***************************************************************************)
(* The eraser hit test.                                                    *)
(***************************************************************************)
\* the squared distance from p to the segment from a to b, as <<numerator,
\* denominator>>: to the foot of the perpendicular where it falls within the
\* segment, else to the nearer end
SegmentDistSq(p, a, b) ==
    LET ab == <<b[1] - a[1], b[2] - a[2]>>
        ap == <<p[1] - a[1], p[2] - a[2]>>
        len == Sq(ab[1]) + Sq(ab[2])
        along == ap[1] * ab[1] + ap[2] * ab[2]
        cross == ab[1] * ap[2] - ab[2] * ap[1]
    IN  IF len # 0 /\ 0 < along /\ along < len
        THEN <<Sq(cross), len>>
        ELSE <<Min2(DistSq(p, a), DistSq(p, b)), 1>>

\* some segment of the polyline is at distance <= radius + strokeWidth / 2
\* of p, the least distance included
TouchesWithin(points, p, radius, strokeWidth) ==
    \E k \in 0..(Len(points) \div 2 - 2) :
        LET d == SegmentDistSq(p, PointAt(points, 2 * k), PointAt(points, 2 * k + 2))
        IN  4 * d[1] <= Sq(2 * radius + strokeWidth) * d[2]

\* the least distance is exactly radius + strokeWidth / 2
TouchesAtThreshold(points, p, radius, strokeWidth) ==
    /\ TouchesWithin(points, p, radius, strokeWidth)
    /\ \A k \in 0..(Len(points) \div 2 - 2) :
          LET d == SegmentDistSq(p, PointAt(points, 2 * k), PointAt(points, 2 * k + 2))
          IN  4 * d[1] >= Sq(2 * radius + strokeWidth) * d[2]

\* the eraser acts at pos: it is pressed there, or moved there while pressed
ErasesAt(pos) == PointerDown(pos) \/ EraseMove(pos)

\* C18: when the eraser acts at a position, a stroke of at least one segment
\* that is not yet marked becomes marked exactly when the least distance from
\* that position to its segments is <= eraser radius + strokeWidth / 2, a
\* distance equal to that threshold included.
C18_EraseHitTestInclusive ==
    [][ \A pos \in EraserCentres :
          ErasesAt(pos) =>
            \A n \in Content(layer) :
                (n.id \notin markedForDeletion /\ Len(n.points) >= 4) =>
                    (n.id \in markedForDeletion' <=>
                       TouchesWithin(n.points, pos, EraserSettings.thickness \div 2,
                                     n.strokeWidth))
      ]_vars

\* the eraser was just pressed at exactly the threshold distance from the
\* stroke, and the stroke is marked
C18_Witness ==
    /\ eraserTrail # 0
    /\ Len(Node(layer, eraserTrail).points) = 2
    /\ \E n \in NodesOf(layer, markedForDeletion) :
          /\ Len(n.points) >= 4
          /\ TouchesAtThreshold(n.points, lastEraserPos,
                                EraserSettings.thickness \div 2, n.strokeWidth)

(***************************************************************************)
(* Notification and saving.                                                *)
(***************************************************************************)
\* the pointer goes down: a gesture starts
GestureStarts == ~pointerIsDown /\ pointerIsDown'

\* C19: every committed gesture is followed by a call of onContentChange
\* before the next gesture starts.  The page starts empty and only
\* onContentChange sets isDirty, so: when a gesture starts on a page that
\* holds a stroke, onContentChange has been called.
C19_GestureNotifiesBeforeNext ==
    [][ (GestureStarts /\ UserIds(layer) # {}) => isDirty ]_vars

\* no save is pending or running and none will start: the debounce timer is
\* not armed, no write is awaited and the interval finds isDirty false
SavingAtRest == ~saveDebounceTimer /\ savesInFlight = << >> /\ ~isDirty

\* C20: every content change is saved without the view being closed, however
\* the changes interleave with the debounce timer, the interval and a save
\* that awaits its write: whenever saving is at rest, the file holds the
\* content with every change made.
C20_EveryChangeSaved == SavingAtRest => fileData = content

(***************************************************************************)
(* The snap, the hold timer and the corner detector.                       *)
(***************************************************************************)
\* C21: when a stroke is snapped, the anchor is the centre of the stroke's
\* bounds for circle, oval, rectangle and triangle; for a line the anchor is
\* the stroke's first point and the line runs from the stroke's first point
\* to its last point.
C21_AnchorOfSnappedShape ==
    [][ (SnapStep /\ currentLine # 0) =>
          LET points == Node(layer, currentLine).points
              first == PointAt(points, 0)
              last == PointAt(points, Len(points) - 2)
          IN  IF detectedShapeType' = "line"
              THEN /\ shapeAnchor' = first
                   /\ Node(layer', currentShape').points
                         = <<first[1], first[2], last[1], last[2]>>
              ELSE /\ 2 * shapeAnchor'[1] = MinOf(Xs(points)) + MaxOf(Xs(points))
                   /\ 2 * shapeAnchor'[2] = MinOf(Ys(points)) + MaxOf(Ys(points))
      ]_vars

\* a pointer-move at pos that is processed in Drawing with a live stroke
DrawingMove(pos) ==
    /\ isDrawing
    /\ currentTool \in {"pen", "highlighter"}
    /\ ~isInShapeMode
    /\ currentLine # 0
    /\ PointerMove(pos)

\* C22: a pointer-move processed in Drawing with a live stroke, made while no
\* hold timer is pending, arms one; so does the first move after a timer has
\* fired without snapping.
C22_MoveArmsTimerWhenNonePending ==
    [][ \A pos \in Positions :
          (DrawingMove(pos) /\ ~timerArmed) => timerArmed' ]_vars

\* the move to pos steps more than moveThreshold from the previous move sample
BigStep(pos) == lastMovePos # NoPos /\ DistSq(pos, lastMovePos) > Sq(moveThreshold)

\* the stroke holds only the point of the pointer-down: the gesture's first move
FirstMove == Len(Node(layer, currentLine).points) = 2

\* C23: a pointer-move in Drawing that steps more than 5px from the previous
\* move sample cancels the pending hold timer, so that after it, and after
\* the first move of a gesture, the hold callback is due 1000 ms later and
\* not before; a move of 5px or less leaves a pending timer as it is.
C23_DetectionOnlyAfterHold ==
    [][ \A pos \in HoldPositions :
          DrawingMove(pos) =>
            /\ (BigStep(pos) \/ FirstMove) =>
                   (timerArmed' /\ timerDue' = now + holdDelay)
            /\ (~BigStep(pos) /\ ~FirstMove /\ timerArmed) =>
                   (timerArmed' /\ timerDue' = timerDue)
      ]_vars

\* the layer without its child of this id
Without(lyr, id) == DestroyNodes(lyr, {id})

\* C24: a snap replaces the raw stroke by exactly one shape: right after it
\* the raw stroke is off the layer, one new child named stroke (user content)
\* is on the layer, currentLine is null and every other child is unchanged.
C24_SnapReplacesStrokeByOneShape ==
    [][ (SnapStep /\ currentLine # 0) =>
          LET raw == Node(layer, currentLine)
              shape == layer'[Len(layer')]
          IN  /\ currentLine' = 0
              /\ Len(layer') = Len(layer)
              /\ layer' = Append(Without(layer, currentLine), shape)
              /\ shape # raw
              /\ shape.name = "stroke"
              /\ shape.cls \in {"Circle", "Ellipse", "Rect", "Line"}
              /\ currentShape' = shape.id
      ]_vars

\* a stroke has been snapped on a page that holds an earlier shape
C24_Witness ==
    /\ isInShapeMode /\ currentShape # 0 /\ currentLine = 0
    /\ Len(layer) = 3
    /\ layer[3].id = currentShape
    /\ layer[2].name = "stroke"

\* the hold callback runs while a stroke is live
FiresOnStroke == TimerFire /\ currentLine # 0 /\ ~isInShapeMode

\* C25: shape mode is never entered for a stroke of fewer than 3 points: when
\* the hold timer fires on such a stroke the stroke is left as it is and the
\* gesture stays in Drawing.
C25_NoSnapBelowThreePoints ==
    [][ (FiresOnStroke /\ Len(Node(layer, currentLine).points) < 6) =>
          /\ ~isInShapeMode'
          /\ layer' = layer
          /\ currentLine' = currentLine
          /\ currentShape' = currentShape
          /\ detectedShapeType' = detectedShapeType
          /\ isDrawing' = isDrawing
      ]_vars

\* the timer has fired on a stroke of one or two points, which is still live
C25_Witness ==
    /\ shapeHoldTimer /\ ~timerArmed
    /\ currentLine # 0 /\ ~isInShapeMode /\ isDrawing
    /\ Len(Node(layer, currentLine).points) < 6

(***************************************************************************)
(* Dragging, scaling and resizing.                                         *)
(***************************************************************************)
\* the centroid of the outline as it is now: the two sums and the count
OutlineCentre ==
    <<SumFrom(lassoPoints, 1), SumFrom(lassoPoints, 2), Len(lassoPoints) \div 2>>

\* the step scales the outline and every selected child around the centre c
ScalesAround(c, scaleFactor) ==
    /\ lassoPoints' = ScaledPoints(lassoPoints, c, scaleFactor)
    /\ \A k \in 1..Len(layer) :
           layer[k].id \in selectedShapes =>
               layer'[k] = ScaledShape(layer[k], c, scaleFactor)

\* C26: scaleSelection scales every selected shape and the lasso outline
\* around the centroid of the current lasso outline, also after the
\* selection has been dragged.
C26_ScalesAroundCurrentCentroid ==
    [][ \A pos \in SelectMoves, scaleFactor \in ScaleFactors :
            ScaleSelection(pos, scaleFactor) =>
                ScalesAround(OutlineCentre, scaleFactor) ]_vars

\* the drag of the selection begins here: nothing has moved yet
DragBegins(pos) ==
    /\ isPointInSelection(State, pos) /\ SelectDown(pos)
    /\ isDraggingSelection' /\ dragStartPos' = pos
    /\ layer' = layer /\ lassoPoints' = lassoPoints

\* the child and the pointer have moved by the same amount in this step
MovesWithPointer(k) ==
    /\ layer'[k].x - dragStartPos'[1] = layer[k].x - dragStartPos[1]
    /\ layer'[k].y - dragStartPos'[2] = layer[k].y - dragStartPos[2]
    /\ [layer'[k] EXCEPT !.x = 0, !.y = 0] = [layer[k] EXCEPT !.x = 0, !.y = 0]

\* C27: a drag of the selection that begins at p0 keeps every selected
\* item's position and every point of the outline at the same offset from
\* the pointer through every move, so at the position pn they are translated
\* by exactly pn - p0; the children that are not selected stay as they are.
C27_DragTranslatesByPointerTravel ==
    [][ /\ \A pos \in SelectStarts \cup SelectDowns :
              (isPointInSelection(State, pos) /\ SelectDown(pos)) => DragBegins(pos)
        /\ \A pos \in SelectMoves :
              (SelectionMove(pos) /\ dragStartPos # NoPos) =>
                  /\ dragStartPos' = pos
                  /\ Len(layer') = Len(layer)
                  /\ lassoPoints' = Shifted(lassoPoints, pos[1] - dragStartPos[1],
                                            pos[2] - dragStartPos[2])
                  /\ Node(layer', lassoPath).points = lassoPoints'
                  /\ \A k \in 1..Len(layer) :
                         IF layer[k].id \in selectedShapes THEN MovesWithPointer(k)
                         ELSE IF layer[k].id = lassoPath THEN TRUE
                         ELSE layer'[k] = layer[k] ]_vars

\* the rectangle, pressed at (2,2), has followed the pointer to (4,6) while
\* the stroke outside the outline has stayed
C27_Witness ==
    /\ pointerIsDown /\ isDraggingSelection /\ dragStartPos = <<4, 6>>
    /\ 3 \in selectedShapes /\ 4 \notin selectedShapes
    /\ Node(layer, 3).x = 4 /\ Node(layer, 3).y = 6
    /\ Node(layer, 4).x = 0
    /\ lassoPoints = <<2, 4, 14, 4, 2, 16, 2, 4>>

\* the node with the geometry that resizeShape writes taken away
Wiped(n) ==
    [n EXCEPT !.radiusSq = 0, !.radiusX = 0, !.radiusY = 0, !.width = 0,
              !.height = 0, !.points = << >>,
              !.x = IF n.cls = "Rect" THEN 0 ELSE @,
              !.y = IF n.cls = "Rect" THEN 0 ELSE @]

\* the shape as one resizeShape(pos) makes it out of a shape without geometry
ResizedOnce(pos) ==
    Node(resizeShape([State EXCEPT !.layer = ReplaceNode(@, currentShape,
                                     Wiped(Node(layer, currentShape)))],
                     pos).layer,
         currentShape)

\* C28: the live resize is a function of the kind, the anchor and the
\* pointer alone: after every move in shape mode the shape equals the one a
\* single resizeShape at that position produces, whatever the positions
\* before it and whatever geometry the bounds of the stroke gave it.
C28_ResizeIsPureFunction ==
    [][ \A pos \in ResizePositions \cup {shapeAnchor} :
            (ResizeMove(pos) /\ currentShape # 0) =>
                /\ Node(layer', currentShape) = ResizedOnce(pos)
                /\ Node(layer, currentShape).cls \in {"Circle", "Ellipse"} =>
                       /\ Node(layer', currentShape).x = shapeAnchor[1]
                       /\ Node(layer', currentShape).y = shapeAnchor[2] ]_vars

\* an oval that has been pulled out to (20, 4) and back in to (2, 10)
C28_Witness ==
    /\ pointerIsDown /\ isInShapeMode /\ currentShape # 0
    /\ detectedShapeType = "oval"
    /\ Abs(20 - shapeAnchor[1]) > Abs(2 - shapeAnchor[1])
    /\ Node(layer, currentShape).radiusX = Max2(minShapeSize, Abs(2 - shapeAnchor[1]))
    /\ Node(layer, currentShape).radiusY = Max2(minShapeSize, Abs(10 - shapeAnchor[2]))
    /\ Node(layer, currentShape).radiusY # Half(shapeBounds[4] - shapeBounds[2])

(***************************************************************************)
(* The vertex angle and the corner detector's length guard.                *)
(***************************************************************************)
\* the angles the scan loop of findSignificantCorners computes on a stroke
ScannedAngles(points) ==
    LET step == Max2(minStep, Len(points) \div 40)
        scanned == { i \in (step * 2)..(Len(points) - step * 2 - 2) : i % 2 = 0 }
    IN  { getAngle(PointAt(points, Max2(0, i - step * 2)),
                   PointAt(points, i),
                   PointAt(points, Min2(Len(points) - 2, i + step * 2))) :
            i \in scanned }

\* C29: the vertex angle of every prev, curr, next lies between 0 and 180
\* degrees, also when the bearings from curr to prev and from curr to next
\* lie on opposite sides of the wrap-around at +/-180 degrees.
C29_AngleWithinHalfTurn ==
    retShape # "pending" =>
        \A angle \in ScannedAngles(argPoints) :
            0 <= angle /\ angle <= 180 * 1000000

\* C30: the corner detector returns no corner for a stroke of fewer than 12
\* points, whatever its geometry.
C30_NoCornersBelowTwelvePoints ==
    (retShape # "pending" /\ Len(argPoints) \div 2 < 12) =>
        findSignificantCorners(argPoints, StrokeWidth(argPoints),
                               StrokeHeight(argPoints)) = << >>

(***************************************************************************)
(* The corners the detector keeps.                                         *)
(***************************************************************************)
\* the candidates the scan loop collects on the classified stroke
ScanCandidates ==
    IF Len(argPoints) < minPointsLength THEN << >>
    ELSE LET step == Max2(minStep, Len(argPoints) \div 40)
         IN  CornerCandidates(argPoints, step, step * 2,
                              Len(argPoints) - step * 2 - 1)

FoundCorners ==
    findSignificantCorners(argPoints, StrokeWidth(argPoints), StrokeHeight(argPoints))

\* p and q are closer than minDistance = 0.15 * min(width, height)
CloserThanMinDistance(p, q) ==
    400 * DistSq(p, q) < 9 * Sq(Min2(StrokeWidth(argPoints), StrokeHeight(argPoints)))

\* C31: any two returned corners are at least minDistance apart, every
\* returned corner is a candidate, and a candidate is left out only if a
\* returned corner with a smaller or equal angle lies closer than
\* minDistance to it.
C31_CornersDistinctSharpestFirst ==
    retShape # "pending" =>
        LET corners == FoundCorners
            cands == ScanCandidates
            kept == { corners[k] : k \in 1..Len(corners) }
        IN  /\ \A i, j \in 1..Len(corners) :
                   i # j => ~CloserThanMinDistance(corners[i], corners[j])
            /\ \A p \in kept : \E k \in 1..Len(cands) : cands[k].point = p
            /\ \A k \in 1..Len(cands) :
                   cands[k].point \notin kept =>
                       \E a \in 1..Len(cands) :
                           /\ cands[a].point \in kept
                           /\ cands[a].angle <= cands[k].angle
                           /\ CloserThanMinDistance(cands[k].point, cands[a].point)

\* a stroke on which a candidate was left out for a sharper one scanned later
C31_Witness ==
    /\ retShape # "pending"
    /\ Len(FoundCorners) < Len(ScanCandidates)
    /\ \E k \in 1..Len(ScanCandidates) :
           /\ ScanCandidates[k].point = FoundCorners[1]
           /\ \E j \in 1..(k - 1) : ScanCandidates[j].angle > ScanCandidates[k].angle

(***************************************************************************)
(* Lasso membership.                                                       *)
(***************************************************************************)
SquareOutline == <<0, 0, 100, 0, 100, 100, 0, 100, 0, 0>>
\* the coordinates the membership test is asked about
TestCoords == { -50, -1, 0, 1, 50, 99, 100, 101, 150 }

StrictlyInside(x, y) == 0 < x /\ x < 100 /\ 0 < y /\ y < 100
StrictlyOutside(x, y) == x < 0 \/ x > 100 \/ y < 0 \/ y > 100

\* C32: for the closed square <<0,0, 100,0, 100,100, 0,100, 0,0>> every point
\* strictly inside tests inside and every point strictly outside tests
\* outside; an outline of fewer than 3 points tests false for every point; no
\* press strictly outside the frozen square takes hold of the selection.
C32_RayCastingParity ==
    /\ lassoPoints = SquareOutline =>
           \A x \in TestCoords, y \in TestCoords :
               /\ StrictlyInside(x, y) => isPointInLasso(lassoPoints, x, y)
               /\ StrictlyOutside(x, y) => ~isPointInLasso(lassoPoints, x, y)
    /\ Len(lassoPoints) < 6 =>
           \A x \in TestCoords, y \in TestCoords : ~isPointInLasso(lassoPoints, x, y)
    /\ (pointerIsDown /\ lassoPoints = SquareOutline /\ lassoPath # 0
          /\ dragStartPos # NoPos) =>
           isDraggingSelection /\ ~StrictlyOutside(dragStartPos[1], dragStartPos[2])

\* the frozen square, pressed at (50, 50)
C32_Witness ==
    /\ lassoPoints = SquareOutline /\ lassoPath # 0 /\ selectedShapes # {}
    /\ pointerIsDown /\ isDraggingSelection /\ dragStartPos = <<50, 50>>

(***************************************************************************)
(* Hovering, serialized pages, undo.                                       *)
(***************************************************************************)
\* C33: after a pointer-up has been delivered, under whatever tool, isDrawing
\* is false and the pointer-moves that arrive before the next pointer-down
\* append no point to any stroke and change no page content.
C33_HoverChangesNothing ==
    [][ \A pos \in Positions \cup {NoPos} :
            (~pointerIsDown /\ PointerMove(pos)) =>
                ~isDrawing /\ layer' = layer ]_vars

\* the finalized user content of a layer: its children less the background,
\* the lasso lines and the eraser trail
UserContent(lyr) == SelectSeq(lyr, LAMBDA n : n.name \notin DecorationNames)

\* C34: whenever the capture timer or the save timer fires, the page it
\* serializes holds the finalized user strokes and shapes only: no frozen
\* lasso outline, no lasso line in progress and no eraser trail is in it.
C34_SerializedPageIsUserContent ==
    [][ /\ CaptureFire =>
               undoStack'[Len(undoStack')] = serializePage(UserContent(layer))
        /\ (SerializeSave /\ isDirty) =>
               savesInFlight' = <<serializePage(UserContent(layer))>> ]_vars

\* C35: an undo immediately followed by a redo leaves the page with the
\* content it had just before the undo, whether or not the snapshot of the
\* last change had been captured.
C35_UndoThenRedoRestores ==
    [][ (Undo /\ Len(undoStack) > 1) =>
            serializePage(redo(View').tools.layer) = serializePage(layer) ]_vars

(***************************************************************************)
(* The classifier is total; erasing; hit tests after a drag; shape mode.   *)
(***************************************************************************)
\* the points of the stroke in progress
CurrentPoints == Node(layer, currentLine).points

\* C36: the classifier names a shape for every stroke of at least 2 points,
\* and every firing of the hold timer on a pen stroke of at least 3 points
\* replaces the stroke by a shape of that kind, the stroke whose samples all
\* share one position included.
C36_HoldFiringAlwaysSnaps ==
    [][ (currentLine # 0 /\ ~isInShapeMode /\ Len(CurrentPoints) >= 4) =>
            /\ analyzeStrokeForShape(CurrentPoints) \in ShapeKinds
            /\ (TimedFire /\ Len(CurrentPoints) >= 6
                  /\ Node(layer, currentLine).stroke = PenSettings.color) =>
                   /\ isInShapeMode'
                   /\ detectedShapeType' = analyzeStrokeForShape(CurrentPoints)
                   /\ currentLine' = 0 /\ currentShape' # 0
                   /\ Len(layer') = Len(layer)
                   /\ currentShape' \in NodeIds(layer') ]_vars

\* the hold timer has fired on three samples at one position
C36_Witness ==
    /\ isInShapeMode /\ currentShape # 0 /\ currentLine = 0
    /\ shapeBounds = <<0, 0, 0, 0>> /\ detectedShapeType = "oval"

\* the freehand strokes of the page that have a sample at the position and
\* are not marked yet
StrokesThrough(pos) ==
    { layer[k].id : k \in { j \in 1..Len(layer) :
          /\ layer[j].name = "stroke" /\ layer[j].cls = "Line"
          /\ \E i \in 1..(Len(layer[j].points) \div 2) :
                 layer[j].points[2 * i - 1] = pos[1] /\ layer[j].points[2 * i] = pos[2] } }

\* the eraser is pressed at the position, or moved to it while erasing
EraserAt(pos) ==
    /\ currentTool = "eraser"
    /\ PointerDown(pos) \/ (pointerIsDown /\ isDrawing /\ PointerMove(pos))

\* C37: an eraser pointer-down or pointer-move whose centre is on a sample of
\* a freehand stroke marks that stroke for deletion, a stroke of one single
\* point included.
C37_EraserMarksEveryStroke ==
    [][ \A pos \in Positions :
            EraserAt(pos) => StrokesThrough(pos) \subseteq markedForDeletion' ]_vars

\* a freehand stroke as it is displayed: its points moved by its position
Displayed(n) == [n EXCEPT !.points = Shifted(n.points, n.x, n.y), !.x = 0, !.y = 0]

\* the freehand strokes of a layer
FreehandStrokes(lyr) ==
    { lyr[k] : k \in { j \in 1..Len(lyr) : lyr[j].name = "stroke" /\ lyr[j].cls = "Line" } }

\* where the eraser's hit test is asked
EraserProbes == { <<4, 2>>, <<20, 2>>, <<24, 2>>, <<10, 24>> }

\* the step closes a lasso and freezes its outline
LassoCloses == lassoLine # 0 /\ lassoLine' = 0 /\ lassoPath' # 0

\* C38: after any sequence of select, drag and scale operations the eraser's
\* hit test and the lasso's membership test take every freehand stroke where
\* it is displayed, at its points moved by the distance it was dragged.
C38_HitTestsFollowTheDrag ==
    [][ /\ \A n \in FreehandStrokes(layer), pos \in EraserProbes :
               lineIntersectsEraser(n, pos, EraserSettings.thickness)
                   <=> lineIntersectsEraser(Displayed(n), pos, EraserSettings.thickness)
        /\ LassoCloses =>
               \A n \in FreehandStrokes(layer') :
                   n.id \in selectedShapes'
                       <=> shapeIntersectsLasso(lassoPoints', Displayed(n)) ]_vars

\* C39: in every state between two handlers, shape mode comes with its data:
\* the shape, its kind, its anchor and its bounds are set and no freehand
\* stroke is in progress.
C39_ShapeModeHasItsData ==
    isInShapeMode =>
        /\ currentShape # 0
        /\ detectedShapeType # "none"
        /\ shapeAnchor # << >>
        /\ shapeBounds # << >>
        /\ currentLine = 0

====
